---- MODULE Spec2Model ----
(***************************************************************************)
(* A model of lbrynet/core/Storage.py (MemoryStorage): the sqlite tables   *)
(* are the state, every public method is an action made of the SQL         *)
(* statements the method issues, in order.                                 *)
(***************************************************************************)
EXTENDS Integers, Sequences, FiniteSets, TLC

VARIABLES
    blobs,      \* table blobs:          id -> blob_hash
    blobSeq,    \* sqlite_sequence of blobs (AUTOINCREMENT never reuses an id)
    managed,    \* table managed_blobs:  id -> row
    files,      \* table files:          id -> row
    fileSeq,    \* sqlite_sequence of files
    terms,      \* table stream_terminators: id -> [blob_count, iv]
    claims,     \* table claims:         id -> row
    claimSeq,   \* sqlite_sequence of claims
    winning,    \* table winning_claims: id -> [name, claim_id, last_checked]
    winSeq,     \* sqlite_sequence of winning_claims
    metadata,   \* table metadata:       id -> value
    history,    \* table blob_transfer_history: id -> row
    histSeq,    \* sqlite_sequence of blob_transfer_history
    last,       \* the last completed call: its name, arguments, result, error
    procs       \* the calls in flight, statement by statement (racing callers)

vars == <<blobs, blobSeq, managed, files, fileSeq, terms, claims, claimSeq,
          winning, winSeq, metadata, history, histSeq, last, procs>>

----------------------------------------------------------------------------
(* Values *)

\* SQL NULL in an INTEGER column
NULL == -1
\* Python None, SQL NULL in a TEXT column
None == "None"
\* Python False, what the get_*_row_id helpers return for "no row"; bound as
\* an SQL parameter it is the integer 0
False == 0

PENDING_STREAM == "pending"

INIT == "INIT"
PENDING == "PENDING"
ACTIVE == "ACTIVE"
INACTIVE == "INACTIVE"
INVALID_METADATA == "INVALID_METADATA"
MISSING_METADATA == "MISSING_METADATA"

\* Python truthiness of a str-or-None argument
Truthy(s) == s # None /\ s # ""

----------------------------------------------------------------------------
(* Bounds and input sets *)

\* caps on the AUTOINCREMENT counters (inserts are disabled beyond them)
MaxBlobId == 3
MaxFileId == 2
\* the largest position number a single appended piece carries
MaxPos == 3
\* the largest N of an ordered piece list (N pieces and a terminator)
MaxN == 2
\* cap on the AUTOINCREMENT counter of claims
MaxClaimId == 2
\* cap on the AUTOINCREMENT counter of blob_transfer_history
MaxHistId == 1
\* the number of times rerun_if_locked runs a locked statement again
MaxRetries == 3

HashPool == <<"aa", "bb", "cc", "dd">>
Hashes == {"aa", "bb"}
HashArgs == Hashes \cup {"", None}
StreamHashes == {"s1", "s2"}
IVs == {"iv0", "iv1"}
Lengths == {0, 10}
Positions == 0..MaxPos

----------------------------------------------------------------------------
(* Finite maps *)

Put(f, k, v) == [x \in DOMAIN f \cup {k} |-> IF x = k THEN v ELSE f[x]]
Drop(f, K) == [x \in DOMAIN f \ K |-> f[x]]
Empty == [x \in {} |-> 0]

\* the least element of a non-empty set of integers: sqlite scans a rowid
\* table in rowid order, so result[0] of an unordered SELECT is this row
Min(S) == CHOOSE x \in S : \A y \in S : x <= y

----------------------------------------------------------------------------
(* The database as one value, so that statements compose *)

DB == [blobs |-> blobs, blobSeq |-> blobSeq, managed |-> managed,
       files |-> files, fileSeq |-> fileSeq, terms |-> terms,
       claims |-> claims, claimSeq |-> claimSeq,
       winning |-> winning, winSeq |-> winSeq,
       metadata |-> metadata, history |-> history, histSeq |-> histSeq]

SetDB(d) ==
    /\ blobs' = d.blobs
    /\ blobSeq' = d.blobSeq
    /\ managed' = d.managed
    /\ files' = d.files
    /\ fileSeq' = d.fileSeq
    /\ terms' = d.terms
    /\ claims' = d.claims
    /\ claimSeq' = d.claimSeq
    /\ winning' = d.winning
    /\ winSeq' = d.winSeq
    /\ metadata' = d.metadata
    /\ history' = d.history
    /\ histSeq' = d.histSeq

EmptyDB == [blobs |-> Empty, blobSeq |-> 0, managed |-> Empty,
            files |-> Empty, fileSeq |-> 0, terms |-> Empty,
            claims |-> Empty, claimSeq |-> 0,
            winning |-> Empty, winSeq |-> 0,
            metadata |-> Empty, history |-> Empty, histSeq |-> 0]

\* The result of a statement or of a call that returns a row id (or False,
\* or a count): the database it leaves, the value, and the exception it raised
\* ("" for none)
Ok(d, v) == [db |-> d, ret |-> v, err |-> ""]
Raise(d, e) == [db |-> d, ret |-> False, err |-> e]

\* PRAGMA foreign_keys=1 is issued once through the connection pool, so it
\* holds on the one pooled connection that ran it: whether the connection that
\* serves a statement enforces foreign keys is not decided by the program
FKModes == BOOLEAN

----------------------------------------------------------------------------
(* Blob registry *)

NullManaged == [file_id |-> NULL, stream_position |-> NULL, iv |-> None,
                blob_length |-> NULL, last_verified_time |-> NULL,
                last_announced_time |-> NULL, next_announce_time |-> NULL]

\* SELECT id FROM blobs WHERE blob_hash=?   (NULL = NULL matches no row)
SelectBlobId(db, h) == {i \in DOMAIN db.blobs : h # None /\ db.blobs[i] = h}

\* the insert into a blobs table whose blob_hash is not UNIQUE
InsertBlob_NotUnique(db, h) ==
    IF h = None THEN Raise(db, "IntegrityError")
    ELSE Ok([db EXCEPT !.blobs = Put(@, db.blobSeq + 1, h),
                       !.blobSeq = @ + 1], db.blobSeq + 1)

\* INSERT INTO blobs VALUES (NULL, ?)
InsertBlob(db, h) ==
    IF h = None THEN Raise(db, "IntegrityError")          \* NOT NULL
    ELSE IF SelectBlobId(db, h) # {} THEN Raise(db, "IntegrityError")  \* UNIQUE
    ELSE Ok([db EXCEPT !.blobs = Put(@, db.blobSeq + 1, h),
                       !.blobSeq = @ + 1], db.blobSeq + 1)

\* INSERT INTO managed_blobs VALUES (?, NULL, NULL, NULL, NULL, NULL, NULL, NULL)
InsertManaged(db, id, fk) ==
    IF id \in DOMAIN db.managed THEN Raise(db, "IntegrityError")    \* PRIMARY KEY
    ELSE IF fk /\ id \notin DOMAIN db.blobs THEN Raise(db, "IntegrityError")
    ELSE Ok([db EXCEPT !.managed = Put(@, id, NullManaged)], id)

\* get_blob_row_id without the lookup that precedes the insert
GetBlobRowId_NoLookup(db, h, fk) ==
    IF Truthy(h)
    THEN LET ins == InsertBlob(db, h)
         IN  IF ins.err # "" THEN ins
             ELSE LET m == InsertManaged(ins.db, ins.ret, fk)
                  IN  IF m.err # "" THEN m ELSE Ok(m.db, ins.ret)
    ELSE Ok(db, False)

\* get_blob_row_id, the statements in the order the method issues them
GetBlobRowId(db, h, fk) ==
    LET found == SelectBlobId(db, h)
        blob_id == IF found # {} THEN Min(found) ELSE False
    IN  IF blob_id = False /\ Truthy(h)
        THEN LET ins == InsertBlob(db, h)
             IN  IF ins.err # "" THEN ins
                 ELSE LET again == SelectBlobId(ins.db, h)
                      IN  IF again = {} THEN Raise(ins.db, "IndexError")
                          ELSE LET m == InsertManaged(ins.db, Min(again), fk)
                               IN  IF m.err # "" THEN m
                                   ELSE Ok(m.db, Min(again))
        ELSE Ok(db, blob_id)

\* add_blob_hash
AddBlobHash(db, h, fk) ==
    LET r == GetBlobRowId(db, h, fk)
    IN  IF r.err # "" THEN r
        ELSE IF r.ret = False
        THEN LET ins == InsertBlob(r.db, h)
             IN  IF ins.err # "" THEN ins ELSE GetBlobRowId(ins.db, h, fk)
        ELSE r

----------------------------------------------------------------------------
(* Stream index *)

\* SELECT id FROM files WHERE stream_hash=?
GetFileRowId(db, s) ==
    LET found == {i \in DOMAIN db.files : s # None /\ db.files[i].stream_hash = s}
    IN  IF found # {} THEN Min(found) ELSE False

\* INSERT INTO files VALUES (NULL, status, rate, stream_hash, sd_blob_id,
\*                           decryption_key, published_file_name, claim_id)
InsertFile(db, row) ==
    IF row.stream_hash # None /\ GetFileRowId(db, row.stream_hash) # False
    THEN Raise(db, "IntegrityError")                                 \* UNIQUE
    ELSE Ok([db EXCEPT !.files = Put(@, db.fileSeq + 1, row),
                       !.fileSeq = @ + 1], db.fileSeq + 1)

\* store_stream as an upsert: an existing row is overwritten
StoreStream_Upsert(db, s, file_name, key, published_file_name) ==
    LET id == GetFileRowId(db, s)
        row == [status |-> PENDING_STREAM, blob_data_rate |-> NULL,
                stream_hash |-> s, sd_blob_id |-> NULL, decryption_key |-> key,
                published_file_name |-> published_file_name, claim_id |-> NULL]
    IN  IF id # False THEN Ok([db EXCEPT !.files[id] = row], NULL)
        ELSE Ok([db EXCEPT !.files = Put(@, db.fileSeq + 1, row), !.fileSeq = @ + 1], NULL)

\* store_stream: file_name is accepted and not stored
StoreStream(db, s, file_name, key, published_file_name) ==
    LET ins == InsertFile(db, [status |-> PENDING_STREAM, blob_data_rate |-> NULL,
                               stream_hash |-> s, sd_blob_id |-> NULL,
                               decryption_key |-> key,
                               published_file_name |-> published_file_name,
                               claim_id |-> NULL])
    IN  IF ins.err # "" THEN Raise(db, "DuplicateStreamHashError") ELSE Ok(ins.db, NULL)

\* save_lbry_file writing a whole new row over an existing one
SaveLbryFile_Replace(db, s, rate) ==
    LET rowid == GetFileRowId(db, s)
        row == [status |-> PENDING_STREAM, blob_data_rate |-> IF rate = NULL THEN 0 ELSE rate,
                stream_hash |-> s, sd_blob_id |-> NULL, decryption_key |-> None,
                published_file_name |-> None, claim_id |-> NULL]
    IN  IF rowid = False
        THEN Ok([db EXCEPT !.files = Put(@, db.fileSeq + 1, row), !.fileSeq = @ + 1],
                db.fileSeq + 1)
        ELSE Ok([db EXCEPT !.files[rowid] = row], rowid)

\* save_lbry_file
SaveLbryFile(db, s, rate) ==
    LET rowid == GetFileRowId(db, s)
        r == IF rate = NULL THEN 0 ELSE rate
    IN  IF rowid = False
        THEN LET ins == InsertFile(db, [status |-> PENDING_STREAM, blob_data_rate |-> r,
                                        stream_hash |-> s, sd_blob_id |-> NULL,
                                        decryption_key |-> None,
                                        published_file_name |-> None,
                                        claim_id |-> NULL])
             IN  IF ins.err # "" THEN ins ELSE Ok(ins.db, GetFileRowId(ins.db, s))
        ELSE Ok([db EXCEPT !.files[rowid].status = PENDING_STREAM,
                           !.files[rowid].blob_data_rate = r], rowid)

\* change_file_status: UPDATE files SET status=? WHERE id=?
ChangeFileStatus(db, rowid, new_status) ==
    IF rowid \in DOMAIN db.files
    THEN Ok([db EXCEPT !.files[rowid].status = new_status], NULL)
    ELSE Ok(db, NULL)

\* SELECT blob_count, iv FROM stream_terminators WHERE id=?
GetStreamTerminator(db, file_id) == file_id \in DOMAIN db.terms

\* the insert replacing the row the stream already has
InsertTerminator_Replace(db, file_id, length, iv, fk) ==
    IF fk /\ file_id \notin DOMAIN db.files THEN Raise(db, "IntegrityError")
    ELSE Ok([db EXCEPT !.terms = Put(@, file_id, [blob_count |-> length, iv |-> iv])],
            NULL)

\* INSERT INTO stream_terminators VALUES (?, ?, ?)
InsertTerminator(db, file_id, length, iv, fk) ==
    IF file_id \in DOMAIN db.terms
    THEN Raise(db, "IntegrityError")                       \* id INTEGER PRIMARY KEY
    ELSE IF fk /\ file_id \notin DOMAIN db.files
    THEN Raise(db, "IntegrityError")                       \* FOREIGN KEY -> files
    ELSE Ok([db EXCEPT !.terms = Put(@, file_id, [blob_count |-> length, iv |-> iv])],
            NULL)

\* add_stream_terminator: the insert is skipped when the stream has one
AddStreamTerminator(db, file_id, length, iv, fk) ==
    IF GetStreamTerminator(db, file_id) THEN Ok(db, NULL)
    ELSE InsertTerminator(db, file_id, length, iv, fk)

\* the piece update without the iv column
UpdateManagedPiece_NoIv(db, file_id, blob, blob_id, fk) ==
    IF blob_id \notin DOMAIN db.managed THEN Ok(db, 0)
    ELSE IF fk /\ file_id \notin DOMAIN db.files THEN Raise(db, "IntegrityError")
    ELSE Ok([db EXCEPT !.managed[blob_id].file_id = file_id,
                       !.managed[blob_id].stream_position = blob.blob_num,
                       !.managed[blob_id].blob_length = blob.length], 1)

\* UPDATE managed_blobs SET file_id=?, stream_position=?, iv=?, blob_length=?
\* WHERE id=?
UpdateManagedPiece(db, file_id, blob, blob_id, fk) ==
    IF blob_id \notin DOMAIN db.managed THEN Ok(db, 0)       \* no row matches
    ELSE IF fk /\ file_id \notin DOMAIN db.files
    THEN Raise(db, "IntegrityError")                       \* FOREIGN KEY -> files
    ELSE Ok([db EXCEPT !.managed[blob_id].file_id = file_id,
                       !.managed[blob_id].stream_position = blob.blob_num,
                       !.managed[blob_id].iv = blob.iv,
                       !.managed[blob_id].blob_length = blob.length], 1)

\* one turn of the loop of add_blobs_to_stream
AddBlobToStream(db, file_id, blob, fk) ==
    IF blob.blob_hash = None /\ blob.length = 0
    THEN AddStreamTerminator(db, file_id, blob.blob_num, blob.iv, fk)
    ELSE LET r == GetBlobRowId(db, blob.blob_hash, fk)
         IN  IF r.err # "" THEN r
             ELSE UpdateManagedPiece(r.db, file_id, blob, r.ret, fk)

RECURSIVE AddBlobsLoop(_, _, _, _, _)
AddBlobsLoop(db, file_id, P, fks, i) ==
    IF i > Len(P) THEN Ok(db, 1)
    ELSE LET r == AddBlobToStream(db, file_id, P[i], fks[i])
         IN  IF r.err # "" THEN r ELSE AddBlobsLoop(r.db, file_id, P, fks, i + 1)

\* add_blobs_to_stream: the stream's row id is looked up once, then one
\* independently committed statement sequence per piece
AddBlobsToStream(db, s, P, fks) == AddBlobsLoop(db, GetFileRowId(db, s), P, fks, 1)

\* get_count_for_stream: SELECT count(*) FROM managed_blobs WHERE file_id=?
GetCountForStream(db, s) ==
    Cardinality({i \in DOMAIN db.managed : db.managed[i].file_id = GetFileRowId(db, s)})

\* SELECT id, ... FROM managed_blobs WHERE file_id=? AND stream_position=?
SelectPieceAt(db, file_id, n) ==
    {i \in DOMAIN db.managed : /\ db.managed[i].file_id = file_id
                               /\ db.managed[i].stream_position = n}

PieceInfo(db, i) ==
    [blob_hash |-> db.blobs[i], blob_num |-> db.managed[i].stream_position,
     iv |-> db.managed[i].iv, length |-> db.managed[i].blob_length]

\* the loop stopping at the first position that has no row
RECURSIVE PiecesFrom_StopAtGap(_, _, _, _)
PiecesFrom_StopAtGap(db, file_id, n, blob_count) ==
    IF n >= blob_count \/ SelectPieceAt(db, file_id, n) = {} THEN <<>>
    ELSE <<PieceInfo(db, Min(SelectPieceAt(db, file_id, n)))>>
         \o PiecesFrom_StopAtGap(db, file_id, n + 1, blob_count)

\* the loop of get_blobs_for_stream over n = from .. blob_count-1: the first row
\* at position n when there is one; positions without a row are skipped
RECURSIVE PiecesFrom(_, _, _, _)
PiecesFrom(db, file_id, n, blob_count) ==
    IF n >= blob_count THEN <<>>
    ELSE LET rows == SelectPieceAt(db, file_id, n)
             rest == PiecesFrom(db, file_id, n + 1, blob_count)
         IN  IF rows = {} THEN rest ELSE <<PieceInfo(db, Min(rows))>> \o rest

\* the terminator as get_blobs_for_stream appends it
TerminatorInfo(db, file_id) ==
    IF GetStreamTerminator(db, file_id)
    THEN <<[blob_hash |-> None, blob_num |-> db.terms[file_id].blob_count,
            iv |-> db.terms[file_id].iv, length |-> 0]>>
    ELSE <<>>

\* get_blobs_for_stream; b_h[0][0] raises IndexError on a managed row whose
\* blob row is gone
GetBlobsForStream(db, s) ==
    LET file_id == GetFileRowId(db, s)
        blob_count == GetCountForStream(db, s)
        read == {Min(SelectPieceAt(db, file_id, n)) :
                    n \in {k \in 0..(blob_count - 1) : SelectPieceAt(db, file_id, k) # {}}}
    IN  IF \E i \in read : i \notin DOMAIN db.blobs
        THEN [seq |-> <<>>, err |-> "IndexError"]
        ELSE [seq |-> PiecesFrom(db, file_id, 0, blob_count) \o TerminatorInfo(db, file_id),
              err |-> ""]

----------------------------------------------------------------------------
(* Lookups of the stream index *)

True == 1

\* what a lookup hands to its caller: a result row (a tuple of columns), one
\* column of a row, or None
Row(cols) == [shape |-> "row", cols |-> cols]
Scalar(v) == [shape |-> "scalar", cols |-> <<v>>]
NoValue == [shape |-> "None", cols |-> <<>>]

\* the lookup returning an empty result for a hash without a row
GetStreamInfo_NoRaise(db, s) ==
    LET result == {i \in DOMAIN db.files : db.files[i].stream_hash = s}
    IN  IF result # {}
        THEN [val |-> Row(<<db.files[Min(result)].decryption_key,
                            db.files[Min(result)].published_file_name,
                            db.files[Min(result)].published_file_name>>), err |-> ""]
        ELSE [val |-> NoValue, err |-> ""]

\* get_stream_info: SELECT decryption_key, published_file_name,
\* published_file_name FROM files WHERE stream_hash=?, and result[0]
GetStreamInfo(db, s) ==
    LET result == {i \in DOMAIN db.files : db.files[i].stream_hash = s}
    IN  IF result # {}
        THEN [val |-> Row(<<db.files[Min(result)].decryption_key,
                            db.files[Min(result)].published_file_name,
                            db.files[Min(result)].published_file_name>>), err |-> ""]
        ELSE [val |-> NoValue, err |-> "NoSuchStreamHash"]

\* check_if_stream_exists: SELECT stream_hash FROM files WHERE stream_hash=?
CheckIfStreamExists(db, s) ==
    IF {i \in DOMAIN db.files : db.files[i].stream_hash = s} # {} THEN True ELSE False

\* get_stream_of_blobhash: the join of files, managed_blobs and blobs on the
\* hash, and results[0], the first row of the result
GetStreamOfBlobhash(db, blob_hash) ==
    LET results == {<<f, mb>> \in (DOMAIN db.files) \X (DOMAIN db.managed) :
                       /\ db.managed[mb].file_id = f
                       /\ mb \in DOMAIN db.blobs
                       /\ db.blobs[mb] = blob_hash}
    IN  IF results # {}
        THEN Row(<<db.files[(CHOOSE r \in results : \A q \in results : r[2] <= q[2])[1]]
                     .stream_hash>>)
        ELSE NoValue

----------------------------------------------------------------------------
(* Announce schedule *)

\* the elements of a set of row ids in rowid order
RECURSIVE InIdOrder(_)
InIdOrder(S) == IF S = {} THEN <<>> ELSE <<Min(S)>> \o InIdOrder(S \ {Min(S)})

\* int(utils.time()): the clock is read in half seconds and truncated to
\* whole seconds
IntTime(c) == c \div 2

\* the join of get_blobs_to_announce with <= in place of <
DueIds_Inclusive(db, timestamp) ==
    {i \in DOMAIN db.blobs \cap DOMAIN db.managed :
        /\ db.managed[i].next_announce_time # NULL
        /\ db.managed[i].next_announce_time <= timestamp
        /\ db.blobs[i] # None}

\* SELECT blob_hash FROM blobs INNER JOIN managed_blobs mb ON mb.id=blobs.id
\* AND mb.next_announce_time<? AND blobs.blob_hash IS NOT NULL
\* (a NULL next_announce_time compares as NULL, which is not true)
DueIds(db, timestamp) ==
    {i \in DOMAIN db.blobs \cap DOMAIN db.managed :
        /\ db.managed[i].next_announce_time # NULL
        /\ db.managed[i].next_announce_time < timestamp
        /\ db.blobs[i] # None}

\* get_blobs_to_announce, the clock reading c given
GetBlobsToAnnounce(db, c) ==
    LET ids == InIdOrder(DueIds(db, IntTime(c)))
    IN  [i \in 1..Len(ids) |-> db.blobs[ids[i]]]

\* UPDATE managed_blobs SET next_announce_time=? WHERE id=?
SetNextAnnounce(db, id, t) ==
    IF id \in DOMAIN db.managed
    THEN [db EXCEPT !.managed[id].next_announce_time = t] ELSE db

\* update_next_blob_announce: one lookup (which registers an unseen hash) and
\* one update per listed hash
RECURSIVE UpdateNextLoop(_, _, _, _)
UpdateNextLoop(db, blob_hashes, t, i) ==
    IF i > Len(blob_hashes) THEN Ok(db, NULL)
    ELSE LET r == GetBlobRowId(db, blob_hashes[i], TRUE)
         IN  IF r.err # "" THEN r
             ELSE UpdateNextLoop(SetNextAnnounce(r.db, r.ret, t), blob_hashes, t, i + 1)

UpdateNextBlobAnnounce(db, blob_hashes, next_announce_time) ==
    UpdateNextLoop(db, blob_hashes, next_announce_time, 1)

\* update_blob_verified_timestamp; the timestamp is the untruncated clock
\* reading, kept in half seconds
UpdateBlobVerifiedTimestamp(db, h, c) ==
    LET r == GetBlobRowId(db, h, TRUE)
    IN  IF r.err # "" THEN r
        ELSE IF r.ret \in DOMAIN r.db.managed
        THEN Ok([r.db EXCEPT !.managed[r.ret].last_verified_time = c], NULL)
        ELSE Ok(r.db, NULL)

\* add_completed_blob
AddCompletedBlob(db, h, length, next_announce_time, c) ==
    LET r == GetBlobRowId(db, h, TRUE)
    IN  IF r.err # "" THEN r
        ELSE IF r.ret \in DOMAIN r.db.managed
        THEN UpdateBlobVerifiedTimestamp(
                 [r.db EXCEPT !.managed[r.ret].blob_length = length,
                              !.managed[r.ret].next_announce_time = next_announce_time],
                 h, c)
        ELSE UpdateBlobVerifiedTimestamp(r.db, h, c)

----------------------------------------------------------------------------
(* Descriptor blobs and transfer history *)

\* save_sd_blob_hash_to_stream: the stream's sd_blob_id is set (FOREIGN KEY ->
\* blobs) and the descriptor's managed row is given the stream as its file_id
\* (FOREIGN KEY -> files)
SaveSdBlobHashToStream(db, s, sd_blob_hash, fk1, fk2) ==
    LET file_id == GetFileRowId(db, s)
        r == GetBlobRowId(db, sd_blob_hash, TRUE)
    IN  IF r.err # "" THEN r
        ELSE IF file_id \in DOMAIN r.db.files /\ fk1 /\ r.ret \notin DOMAIN r.db.blobs
        THEN Raise(r.db, "IntegrityError")
        ELSE LET d1 == IF file_id \in DOMAIN r.db.files
                       THEN [r.db EXCEPT !.files[file_id].sd_blob_id = r.ret]
                       ELSE r.db
             IN  IF r.ret \notin DOMAIN d1.managed THEN Ok(d1, NULL)
                 ELSE IF fk2 /\ file_id \notin DOMAIN d1.files
                 THEN Raise(d1, "IntegrityError")
                 ELSE Ok([d1 EXCEPT !.managed[r.ret].file_id = file_id], NULL)

\* add_blob_to_download_history / add_blob_to_upload_history:
\* INSERT INTO blob_transfer_history VALUES (NULL, blob_id, host, downloaded,
\* rate, ts), ts the truncated clock reading
AddBlobToHistory(db, h, host, downloaded, rate, c, fk) ==
    LET r == GetBlobRowId(db, h, TRUE)
    IN  IF r.err # "" THEN r
        ELSE IF fk /\ r.ret \notin DOMAIN r.db.blobs
        THEN Raise(r.db, "IntegrityError")              \* FOREIGN KEY -> blobs
        ELSE Ok([r.db EXCEPT !.history = Put(@, r.db.histSeq + 1,
                                             [blob_id |-> r.ret, peer_ip |-> host,
                                              downloaded |-> downloaded, rate |-> rate,
                                              time |-> IntTime(c)]),
                             !.histSeq = @ + 1], NULL)

----------------------------------------------------------------------------
(* Deletes and the referential actions of the schema *)

\* DELETE FROM files WHERE id in ids, on a connection that enforces foreign
\* keys: stream_terminators cascade, managed_blobs.file_id is set NULL
CascadeFiles(db, ids) ==
    [db EXCEPT !.files = Drop(@, ids),
               !.terms = Drop(@, ids),
               !.managed = [i \in DOMAIN @ |->
                               IF @[i].file_id \in ids
                               THEN [@[i] EXCEPT !.file_id = NULL] ELSE @[i]]]

\* DELETE FROM blobs WHERE id=?
\*   foreign keys enforced: managed_blobs cascade; files whose sd_blob_id is the
\*   blob cascade; blob_transfer_history.blob_id is NOT NULL with ON DELETE SET
\*   NULL, so the delete of a blob that has history rows is rejected
DeleteBlobRow(db, id, fk) ==
    IF id \notin DOMAIN db.blobs THEN Ok(db, 0)
    ELSE IF ~fk THEN Ok([db EXCEPT !.blobs = Drop(@, {id})], 1)
    ELSE IF \E x \in DOMAIN db.history : db.history[x].blob_id = id
    THEN Raise(db, "IntegrityError")
    ELSE LET gone == {f \in DOMAIN db.files : db.files[f].sd_blob_id = id}
             d1 == CascadeFiles(db, gone)
         IN  Ok([d1 EXCEPT !.blobs = Drop(@, {id}),
                           !.managed = Drop(@, {id})], 1)

\* delete_blob: the row id comes from get_blob_row_id, which registers an
\* unseen hash before it is deleted
DeleteBlob(db, h, fk1, fk2) ==
    LET r == GetBlobRowId(db, h, fk1)
    IN  IF r.err # "" THEN r ELSE DeleteBlobRow(r.db, r.ret, fk2)

----------------------------------------------------------------------------
(* lbrynet.core.utils: the claim hash and the metadata encoding.  A str is  *)
(* its sequence of byte values, a base58 string the sequence of the indexes *)
(* of its characters in the base58 alphabet.                                *)

\* txid.decode('hex'): two hex digits (given as their values) make one byte
HexDecode(t) == [i \in 1..(Len(t) \div 2) |-> 16 * t[2 * i - 1] + t[2 * i]]

\* the number of leading zero bytes, which b58encode turns into leading '1's
RECURSIVE LeadingZeros(_)
LeadingZeros(v) == IF v = <<>> \/ Head(v) # 0 THEN 0 ELSE 1 + LeadingZeros(Tail(v))

\* the bytes as a big-endian number
RECURSIVE BytesToInt(_)
BytesToInt(v) == IF v = <<>> THEN 0 ELSE BytesToInt(SubSeq(v, 1, Len(v) - 1)) * 256 + v[Len(v)]

\* b58encode_int with default_one=False: most significant digit first, the
\* empty string for 0
RECURSIVE B58EncodeInt(_)
B58EncodeInt(n) == IF n = 0 THEN <<>> ELSE Append(B58EncodeInt(n \div 58), n % 58)

\* base58.b58encode
B58Encode(v) == [i \in 1..LeadingZeros(v) |-> 0] \o B58EncodeInt(BytesToInt(v))

\* b58decode_int
RECURSIVE B58DecodeInt(_)
B58DecodeInt(d) == IF d = <<>> THEN 0 ELSE B58DecodeInt(SubSeq(d, 1, Len(d) - 1)) * 58 + d[Len(d)]

RECURSIVE IntToBytes(_)
IntToBytes(n) == IF n = 0 THEN <<>> ELSE Append(IntToBytes(n \div 256), n % 256)

\* base58.b58decode
B58Decode(d) == [i \in 1..LeadingZeros(d) |-> 0] \o IntToBytes(B58DecodeInt(d))

\* condensed_claim_out(txid, nout)
CondensedClaimOut(txid, nout) == B58Encode(Append(HexDecode(txid), nout))

\* A metadata payload: a dict that embeds sources.lbry_sd_hash ("dict", the
\* hash may be "" or None), a dict without 'sources' or without the field, a
\* str, or a mapping that is neither a dict nor a str
Payload(kind, sd) == [kind |-> kind, sd |-> sd]

\* get_sd_hash: metadata_dict['sources']['lbry_sd_hash']
GetSdHash(m) ==
    IF m.kind \in {"dict", "mapping"} THEN [sd |-> m.sd, err |-> ""]
    ELSE IF m.kind = "str" THEN [sd |-> None, err |-> "TypeError"]
    ELSE [sd |-> None, err |-> "KeyError"]

\* the bytes of a hash inside the JSON text (null for None)
HashBytes(h) ==
    IF h = None THEN <<110>> ELSE IF h = "" THEN <<>>
    ELSE IF h = "aa" THEN <<170>> ELSE IF h = "bb" THEN <<187>> ELSE <<204>>

BytesHash(b) ==
    IF b = <<110>> THEN None ELSE IF b = <<>> THEN ""
    ELSE IF b = <<170>> THEN "aa" ELSE IF b = <<187>> THEN "bb" ELSE "cc"

\* json.dumps of a dict payload, at reduced width: an opening byte that tells
\* which keys the dict has, then the embedded hash
JsonDumps(m) ==
    IF m.kind = "dict" THEN <<123>> \o HashBytes(m.sd)
    ELSE IF m.kind = "nofield" THEN <<124>> ELSE <<125>>

JsonLoads(b) ==
    IF Head(b) = 123 THEN Payload("dict", BytesHash(Tail(b)))
    ELSE IF Head(b) = 124 THEN Payload("nofield", None) ELSE Payload("nosources", None)

\* metadata_to_b58: a str is encoded as it is, a dict through json.dumps,
\* anything else raises
MetadataToB58(m) ==
    IF m.kind = "mapping" THEN [value |-> <<>>, err |-> "Exception"]
    ELSE IF m.kind = "str" THEN [value |-> B58Encode(<<34>>), err |-> ""]
    ELSE [value |-> B58Encode(JsonDumps(m)), err |-> ""]

\* decode_b58_metadata
DecodeB58Metadata(v) == JsonLoads(B58Decode(v))

----------------------------------------------------------------------------
(* Claim lifecycle *)

\* get_claim_hash(outpoint)
GetClaimHash(o) == CondensedClaimOut(o.txid, o.nout)

\* get_claim_row_id: SELECT id FROM claims WHERE claim_hash=?
GetClaimRowId(db, ch) ==
    LET found == {i \in DOMAIN db.claims : db.claims[i].claim_hash = ch}
    IN  IF found # {} THEN Min(found) ELSE False

\* a variant of add_claim without the "Claim already known" check and without
\* the UNIQUE constraint on claim_hash
AddClaim_NoCheck(db, name, txid, nout, is_mine) ==
    Ok([db EXCEPT !.claims = Put(@, db.claimSeq + 1,
                       [name |-> name, status |-> INIT, txid |-> txid,
                        nout |-> nout, claim_transaction_id |-> None,
                        claim_hash |-> CondensedClaimOut(txid, nout),
                        sd_blob_id |-> IF is_mine THEN 1 ELSE 0,
                        is_mine |-> NULL]),
                   !.claimSeq = @ + 1], 1)

\* add_claim.  The INSERT lists its values in the order (name, status, txid,
\* nout, claim_id, claim_hash, is_mine, NULL) against the columns (name,
\* status, txid, nout, claim_transaction_id, claim_hash, sd_blob_id, is_mine):
\* the is_mine flag is stored in sd_blob_id and is_mine is NULL
AddClaim(db, name, txid, nout, is_mine) ==
    LET ch == CondensedClaimOut(txid, nout)
    IN  IF GetClaimRowId(db, ch) # False THEN Raise(db, "AssertionError")
        ELSE Ok([db EXCEPT !.claims = Put(@, db.claimSeq + 1,
                               [name |-> name, status |-> INIT, txid |-> txid,
                                nout |-> nout, claim_transaction_id |-> None,
                                claim_hash |-> ch,
                                sd_blob_id |-> IF is_mine THEN 1 ELSE 0,
                                is_mine |-> NULL]),
                           !.claimSeq = @ + 1], 1)

\* a variant of update_claim_status that ignores an unknown claim
UpdateClaimStatus_NoAssert(db, ch, status) ==
    LET found == {i \in DOMAIN db.claims : db.claims[i].claim_hash = ch}
    IN  Ok([db EXCEPT !.claims = [i \in DOMAIN @ |->
                                    IF i \in found THEN [@[i] EXCEPT !.status = status]
                                    ELSE @[i]]], 1)

\* update_claim_status
UpdateClaimStatus(db, ch, status) ==
    LET row_id == GetClaimRowId(db, ch)
    IN  IF row_id = False THEN Raise(db, "AssertionError")
        ELSE Ok([db EXCEPT !.claims[row_id].status = status], 1)

\* a variant of the metadata INSERT that stores nothing
InsertMetadata_Dropped(db, id, value, fk) == Ok(db, 1)

\* INSERT INTO metadata VALUES (?, ?)
InsertMetadata(db, id, value, fk) ==
    IF id \in DOMAIN db.metadata THEN Raise(db, "IntegrityError")   \* PRIMARY KEY
    ELSE IF fk /\ id \notin DOMAIN db.claims THEN Raise(db, "IntegrityError")
    ELSE Ok([db EXCEPT !.metadata = Put(@, id, value)], 1)

\* the body of the try block of add_metadata_to_claim
TryAddMetadata(db, claim_row_id, m, fk) ==
    LET g == GetSdHash(m)
    IN  IF g.err # "" THEN Raise(db, g.err)
        ELSE LET b == AddBlobHash(db, g.sd, TRUE)
             IN  IF b.err # "" THEN b
                 ELSE LET d1 == IF claim_row_id \in DOMAIN b.db.claims
                                THEN [b.db EXCEPT !.claims[claim_row_id].sd_blob_id = b.ret]
                                ELSE b.db
                          enc == MetadataToB58(m)
                      IN  IF enc.err # "" THEN Raise(d1, enc.err)
                          ELSE InsertMetadata(d1, claim_row_id, enc.value, fk)

\* add_metadata_to_claim: any exception of the try block is logged and turned
\* into INVALID_METADATA; update_claim_status is outside the try block
AddMetadataToClaim(db, ch, m, fk) ==
    LET t == TryAddMetadata(db, GetClaimRowId(db, ch), m, fk)
        status_code == IF t.err = "" THEN PENDING ELSE INVALID_METADATA
        u == UpdateClaimStatus(t.db, ch, status_code)
    IN  [db |-> u.db, ret |-> 0, rst |-> IF u.err = "" THEN status_code ELSE "",
         err |-> u.err]

\* get_claim_metadata_for_sd_hash: the hash is looked up with get_blob_row_id,
\* which registers a hash it does not find.  For an id that is not False the
\* SELECT on claims is issued with the integer sd_id as its parameters, not
\* a tuple, and the driver refuses it (ValueError); the statements after it
\* are never reached.  For the empty or null hash the result is None.
GetClaimMetadataForSdHash(db, sd_hash) ==
    LET r == GetBlobRowId(db, sd_hash, TRUE)
    IN  IF r.err # "" THEN r
        ELSE IF r.ret # False THEN Raise(r.db, "ValueError")
        ELSE Ok(r.db, NULL)

\* the lookup finding no row whatever the table holds
IsUpdate_Never(db, name) == FALSE

\* SELECT * FROM winning_claims WHERE name=?
IsUpdate(db, name) == \E w \in DOMAIN db.winning : db.winning[w].name = name

\* UPDATE winning_claims SET claim_id=?, last_checked=? WHERE name=?
UpdateWinning(db, name, id, t) ==
    LET rows == {w \in DOMAIN db.winning : db.winning[w].name = name}
        taken == \E w \in DOMAIN db.winning \ rows : db.winning[w].claim_id = id
    IN  IF rows # {} /\ taken THEN Raise(db, "IntegrityError")     \* claim_id UNIQUE
        ELSE Ok([db EXCEPT !.winning = [w \in DOMAIN @ |->
                                          IF w \in rows
                                          THEN [@[w] EXCEPT !.claim_id = id,
                                                            !.last_checked = t]
                                          ELSE @[w]]], 1)

\* INSERT INTO winning_claims VALUES (NULL, ?, ?, ?)
InsertWinning(db, name, id, t) ==
    IF \E w \in DOMAIN db.winning : db.winning[w].name = name \/ db.winning[w].claim_id = id
    THEN Raise(db, "IntegrityError")                       \* name, claim_id UNIQUE
    ELSE Ok([db EXCEPT !.winning = Put(@, db.winSeq + 1,
                                      [name |-> name, claim_id |-> id,
                                       last_checked |-> t]),
                       !.winSeq = @ + 1], 1)

\* the winning_claims upsert of set_winning_claim
UpsertWinning(db, name, id, t) ==
    IF IsUpdate(db, name) THEN UpdateWinning(db, name, id, t)
    ELSE InsertWinning(db, name, id, t)

\* SELECT id FROM claims WHERE name=? AND status=?
SelectActive(db, name) ==
    {i \in DOMAIN db.claims : db.claims[i].name = name /\ db.claims[i].status = ACTIVE}

\* UPDATE claims SET status=? WHERE id=?
SetClaimStatus(db, id, status) ==
    IF id \in DOMAIN db.claims THEN Ok([db EXCEPT !.claims[id].status = status], 1)
    ELSE Ok(db, 0)

\* a variant of the demotion loop that demotes nothing
DemoteActive_None(db, name) == db

\* the demotion loop of set_winning_claim: every claim that is ACTIVE under
\* the name, the elected one included, is set INACTIVE
DemoteActive(db, name) ==
    [db EXCEPT !.claims = [i \in DOMAIN @ |->
                             IF @[i].name = name /\ @[i].status = ACTIVE
                             THEN [@[i] EXCEPT !.status = INACTIVE] ELSE @[i]]]

\* set_winning_claim
SetWinningClaim(db, name, o, t) ==
    LET ch == GetClaimHash(o)
        id == GetClaimRowId(db, ch)
    IN  IF id = False THEN Raise(db, "IndexError")
        ELSE LET w == UpsertWinning(db, name, id, t)
             IN  IF w.err # "" THEN w
                 ELSE UpdateClaimStatus(DemoteActive(w.db, name), ch, ACTIVE)

----------------------------------------------------------------------------
(* Inputs of the stream index *)

FileNames == {"file_name", "sug_file_name"}
Keys == {"key"}
Rates == {NULL, 5}

Piece(h, n, iv, len) == [blob_hash |-> h, blob_num |-> n, iv |-> iv, length |-> len]

\* one piece of any shape: a blob, a terminator marker (None, length 0), or a
\* piece with an empty or missing hash
SinglePieces(hs, ps, ivs, lens) ==
    {Piece(h, n, iv, len) : h \in hs, n \in ps, iv \in ivs, len \in lens}

\* the (iv, length) pairs of the pieces of an ordered list: both ivs, and a
\* piece of length 0 that has a hash (it is a piece, not a terminator)
PieceAttrs == <<(<<"iv0", 10>>), (<<"iv1", 0>>)>>

\* N pieces with distinct hashes of hs at positions 0..N-1, then the
\* terminator marker at position N; the pieces take the two attribute pairs
\* in turn, starting with either
OrderedListsOf(hs, N) ==
    {[i \in 1..(N + 1) |->
         IF i <= N
         THEN Piece(h[i], i - 1, PieceAttrs[1 + ((i + at) % 2)][1],
                    PieceAttrs[1 + ((i + at) % 2)][2])
         ELSE Piece(None, N, PieceAttrs[1 + ((i + at) % 2)][1], 0)] :
       h \in {f \in [1..N -> hs] : \A a, b \in 1..N : a # b => f[a] # f[b]},
       at \in 0..1}

OrderedLists == UNION {OrderedListsOf({HashPool[i] : i \in 1..MaxN}, N) : N \in 0..MaxN}

\* every statement of a call whose outcome depends on foreign-key enforcement
\* is served by a connection that enforces them or by one that does not
FKChoices(n, matters) ==
    IF matters THEN [1..n -> FKModes] ELSE {[i \in 1..n |-> TRUE]}

----------------------------------------------------------------------------
(* Calls that run to completion before the next one starts *)

NoOut == [txid |-> <<>>, nout |-> 0]

NoCall == [op |-> "", s |-> "", a |-> <<>>, P |-> <<>>, o |-> NoOut,
           m |-> Payload("", ""), t |-> 0, hs |-> <<>>,
           ret |-> 0, rst |-> "", rseq |-> <<>>, rhs |-> <<>>, val |-> NoValue,
           err |-> ""]

Bounded(d) ==
    /\ d.blobSeq <= MaxBlobId
    /\ d.fileSeq <= MaxFileId
    /\ d.claimSeq <= MaxClaimId
    /\ d.histSeq <= MaxHistId

\* a call completes: its writes are in the tables and its outcome is recorded
Finish(result, call) ==
    \E r \in {result} :
        /\ Bounded(r.db)
        /\ SetDB(r.db)
        /\ last' = [call EXCEPT !.ret = r.ret, !.err = r.err]
        /\ UNCHANGED procs

\* register_or_get(hash)
DoGetBlobRowId(h) ==
    Finish(GetBlobRowId(DB, h, TRUE), [NoCall EXCEPT !.op = "get_blob_row_id", !.s = h])

\* create(stream_hash, filename, key, suggested_filename)
DoStoreStream(s, fn, key, pfn) ==
    Finish(StoreStream(DB, s, fn, key, pfn),
           [NoCall EXCEPT !.op = "store_stream", !.s = s, !.a = <<fn, key, pfn>>])

\* save(stream_hash, rate)
DoSaveLbryFile(s, rate) ==
    Finish(SaveLbryFile(DB, s, rate),
           [NoCall EXCEPT !.op = "save_lbry_file", !.s = s, !.t = rate])

\* change_status(identity, new_status)
DoChangeFileStatus(rowid, new_status) ==
    Finish(ChangeFileStatus(DB, rowid, new_status),
           [NoCall EXCEPT !.op = "change_file_status", !.t = rowid, !.rst = new_status])

\* append_pieces(stream_hash, pieces)
DoAddBlobsToStream(s, P) ==
    \E fks \in FKChoices(Len(P), GetFileRowId(DB, s) = False) :
        Finish(AddBlobsToStream(DB, s, P, fks),
               [NoCall EXCEPT !.op = "add_blobs_to_stream", !.s = s, !.P = P])

\* reconstruct(stream_hash)
DoGetBlobsForStream(s) ==
    \E r \in {GetBlobsForStream(DB, s)} :
        /\ last' = [NoCall EXCEPT !.op = "get_blobs_for_stream", !.s = s,
                                  !.rseq = r.seq, !.err = r.err]
        /\ UNCHANGED <<blobs, blobSeq, managed, files, fileSeq, terms, claims, claimSeq,
                       winning, winSeq, metadata, history, histSeq, procs>>

\* delete(hash)
DoDeleteBlob(h) ==
    \E fk \in FKModes :
        Finish(DeleteBlob(DB, h, TRUE, fk), [NoCall EXCEPT !.op = "delete_blob", !.s = h])

InitDB ==
    /\ blobs = Empty /\ blobSeq = 0 /\ managed = Empty
    /\ files = Empty /\ fileSeq = 0 /\ terms = Empty
    /\ claims = Empty /\ claimSeq = 0
    /\ winning = Empty /\ winSeq = 0
    /\ metadata = Empty /\ history = Empty /\ histSeq = 0

\* observe(name, outpoint, is_local)
DoAddClaim(name, o, is_mine) ==
    Finish(AddClaim(DB, name, o.txid, o.nout, is_mine),
           [NoCall EXCEPT !.op = "add_claim", !.s = name, !.o = o])

\* attach_metadata(claim identity, payload)
DoAddMetadataToClaim(o, m) ==
    \E fk \in FKChoices(1, GetClaimRowId(DB, GetClaimHash(o)) = False) :
        \E r \in {AddMetadataToClaim(DB, GetClaimHash(o), m, fk[1])} :
            Finish(r, [NoCall EXCEPT !.op = "add_metadata_to_claim", !.o = o, !.m = m,
                                     !.rst = r.rst])

\* update_status(claim identity, status)
DoUpdateClaimStatus(o, status) ==
    Finish(UpdateClaimStatus(DB, GetClaimHash(o), status),
           [NoCall EXCEPT !.op = "update_claim_status", !.o = o, !.rst = status])

\* elect_winner(name, outpoint)
DoSetWinningClaim(name, o, t) ==
    Finish(SetWinningClaim(DB, name, o, t),
           [NoCall EXCEPT !.op = "set_winning_claim", !.s = name, !.o = o])

\* a call that reads only: the tables are as they were
ReadOnly(call) ==
    /\ last' = call
    /\ UNCHANGED <<blobs, blobSeq, managed, files, fileSeq, terms, claims, claimSeq,
                   winning, winSeq, metadata, history, histSeq, procs>>

\* due_for_announce, at clock reading c
DoGetBlobsToAnnounce(c) ==
    ReadOnly([NoCall EXCEPT !.op = "get_blobs_to_announce", !.t = c,
                            !.rhs = GetBlobsToAnnounce(DB, c)])

\* reschedule(hashes, next_announce_at)
DoUpdateNextBlobAnnounce(blob_hashes, t) ==
    Finish(UpdateNextBlobAnnounce(DB, blob_hashes, t),
           [NoCall EXCEPT !.op = "update_next_blob_announce", !.hs = blob_hashes, !.t = t])

\* mark_completed(hash, length, next_announce_at), at clock reading c
DoAddCompletedBlob(h, length, t, c) ==
    Finish(AddCompletedBlob(DB, h, length, t, c),
           [NoCall EXCEPT !.op = "add_completed_blob", !.s = h, !.t = t])

\* set the descriptor blob of a stream
DoSaveSdBlobHashToStream(s, h) ==
    \E fk \in FKChoices(2, GetFileRowId(DB, s) = False \/ ~Truthy(h)) :
        Finish(SaveSdBlobHashToStream(DB, s, h, fk[1], fk[2]),
               [NoCall EXCEPT !.op = "save_sd_blob_hash_to_stream", !.s = s, !.hs = <<h>>])

\* log_transfer(hash, peer, rate, direction), at clock reading c
DoAddBlobToHistory(h, host, downloaded, rate, c) ==
    \E fk \in FKChoices(1, ~Truthy(h)) :
        Finish(AddBlobToHistory(DB, h, host, downloaded, rate, c, fk[1]),
               [NoCall EXCEPT !.op = "add_blob_to_history", !.s = h, !.t = c])

\* stream-info lookup
DoGetStreamInfo(s) ==
    \E r \in {GetStreamInfo(DB, s)} :
        ReadOnly([NoCall EXCEPT !.op = "get_stream_info", !.s = s, !.val = r.val,
                                !.err = r.err])

\* existence check
DoCheckIfStreamExists(s) ==
    ReadOnly([NoCall EXCEPT !.op = "check_if_stream_exists", !.s = s,
                            !.ret = CheckIfStreamExists(DB, s)])

\* stream-of-blob lookup
DoGetStreamOfBlobhash(h) ==
    ReadOnly([NoCall EXCEPT !.op = "get_stream_of_blobhash", !.s = h,
                            !.val = GetStreamOfBlobhash(DB, h)])

\* claim metadata by descriptor hash
DoGetClaimMetadataForSdHash(h) ==
    Finish(GetClaimMetadataForSdHash(DB, h),
           [NoCall EXCEPT !.op = "get_claim_metadata_for_sd_hash", !.s = h])

Init ==
    /\ InitDB
    /\ last = NoCall
    /\ procs = Empty

Known(s) == GetFileRowId(DB, s) # False

\* The blob registry: registering and deleting hashes, and appending single
\* pieces to a stream that was created
Next ==
    \/ \E h \in HashArgs : DoGetBlobRowId(h)
    \/ \E h \in HashArgs : DoDeleteBlob(h)
    \/ \E key \in Keys, pfn \in FileNames : DoStoreStream("s1", pfn, key, pfn)
    \/ \E b \in SinglePieces(HashArgs, 0..1, {"iv0"}, {10}) :
          Known("s1") /\ DoAddBlobsToStream("s1", <<b>>)

Spec == Init /\ [][Next]_vars

\* The stream table: create and save
NextFiles ==
    \/ \E s \in StreamHashes, fn \in FileNames, key \in Keys, pfn \in FileNames :
          DoStoreStream(s, fn, key, pfn)
    \/ \E s \in StreamHashes, rate \in Rates : DoSaveLbryFile(s, rate)
    \/ \E h \in {"aa"} : DoGetBlobRowId(h)
    \/ Known("s1") /\ DoSaveSdBlobHashToStream("s1", "aa")
    \/ \E rowid \in 1..MaxFileId : DoChangeFileStatus(rowid, "stopped")

SpecFiles == Init /\ [][NextFiles]_vars

\* The stream table and its lookups, for hashes with and without a row
NextInfo ==
    \/ \E s \in StreamHashes, fn \in FileNames, pfn \in FileNames :
          DoStoreStream(s, fn, "key", pfn)
    \/ DoSaveLbryFile("s2", 5)
    \/ \E s \in StreamHashes : DoGetStreamInfo(s)
    \/ \E s \in StreamHashes : DoCheckIfStreamExists(s)

SpecInfo == Init /\ [][NextInfo]_vars

\* Pieces moving between two streams, the stream-of-blob lookup and
\* reconstruction
NextOwner ==
    \/ \E s \in StreamHashes : DoStoreStream(s, "file_name", "key", "file_name")
    \/ \E s \in StreamHashes, b \in SinglePieces(Hashes, 0..1, {"iv0"}, {10}) :
          DoAddBlobsToStream(s, <<b>>)
    \/ \E h \in Hashes : DoGetStreamOfBlobhash(h)
    \/ \E s \in StreamHashes : DoGetBlobsForStream(s)

SpecOwner == Init /\ [][NextOwner]_vars

\* Streams whose pieces sit at any positions, a descriptor linked to one of
\* them, and reconstruction
NextLink ==
    \/ \E s \in StreamHashes : DoStoreStream(s, "file_name", "key", "file_name")
    \/ \E s \in StreamHashes, b \in SinglePieces(Hashes, 0..2, {"iv0"}, {10}) :
          Known(s) /\ DoAddBlobsToStream(s, <<b>>)
    \/ \E d \in {HashPool[i] : i \in 1..MaxBlobId} :
          Known("s1") /\ DoSaveSdBlobHashToStream("s1", d)
    \/ DoGetBlobsForStream("s1")

SpecLink == Init /\ [][NextLink]_vars

Names == {"cat", "dog"}
Times == {100, 200}
Out(txid, nout) == [txid |-> txid, nout |-> nout]
\* three outpoints; the byte strings of the first and the third differ only
\* by a leading zero byte
Outpoints == {Out(<<0, 1>>, 0), Out(<<0, 1>>, 1), Out(<<0, 0, 0, 1>>, 0)}

Payloads ==
    {Payload("dict", h) : h \in {"aa", "", None}}
    \cup {Payload("nofield", None), Payload("str", None), Payload("mapping", "aa")}

\* Observing claims and electing winners
\* the name a watched outpoint claims
NameOf(o) == IF o.nout = 0 THEN "cat" ELSE "dog"

NextClaim ==
    \/ \E o \in Outpoints : DoAddClaim(NameOf(o), o, o.nout = 1)
    \/ \E n \in Names, o \in Outpoints, t \in Times : DoSetWinningClaim(n, o, t)

SpecClaim == Init /\ [][NextClaim]_vars

\* Observing claims, attaching metadata and setting statuses directly
NextMeta ==
    \/ \E o \in Outpoints : o.txid = <<0, 1>> /\ DoAddClaim(NameOf(o), o, FALSE)
    \/ \E o \in Outpoints, m \in Payloads : o.txid = <<0, 1>> /\ DoAddMetadataToClaim(o, m)

    \/ \E o \in Outpoints, st \in {INIT} :
          o.txid = <<0, 1>> /\ DoUpdateClaimStatus(o, st)

SpecMeta == Init /\ [][NextMeta]_vars

\* the two outpoints that claim the same name
Rivals == {o \in Outpoints : o.nout = 0}

\* The claim lifecycle: observing claims, attaching a payload with and
\* without the descriptor field, and electing winners under any name
NextLife ==
    \/ \E o \in Rivals : DoAddClaim(NameOf(o), o, FALSE)
    \/ \E o \in Rivals, m \in {Payload("dict", "aa"), Payload("nofield", None)} :
          DoAddMetadataToClaim(o, m)
    \/ \E n \in Names, o \in Rivals : DoSetWinningClaim(n, o, 100)

SpecLife == Init /\ [][NextLife]_vars

\* Claims with metadata, registered blobs, and the metadata lookup by
\* descriptor hash
NextLookup ==
    \/ \E o \in Rivals : DoAddClaim(NameOf(o), o, FALSE)
    \/ \E o \in Rivals : DoAddMetadataToClaim(o, Payload("dict", "aa"))
    \/ DoGetBlobRowId("bb")
    \/ \E h \in {HashPool[i] : i \in 1..MaxBlobId} \cup {"", None} :
          DoGetClaimMetadataForSdHash(h)

SpecLookup == Init /\ [][NextLookup]_vars

\* clock readings in half seconds: 100 s, 100.5 s and 200 s
ClockHalves == {2 * t : t \in Times} \cup {2 * Min(Times) + 1}

\* The announce schedule: deadlines are set, read and lost with their blob
NextAnnounce ==
    \/ \E h \in HashArgs, t \in Times : DoUpdateNextBlobAnnounce(<<h>>, t)
    \/ \E t \in Times : DoUpdateNextBlobAnnounce(<<HashPool[1], HashPool[2]>>, t)
    \/ \E t \in Times : DoAddCompletedBlob(HashPool[1], 10, t, 2 * t + 1)
    \/ DoGetBlobRowId(HashPool[3])
    \/ DoDeleteBlob(HashPool[1])
    \/ \E c \in ClockHalves : DoGetBlobsToAnnounce(c)

SpecAnnounce == Init /\ [][NextAnnounce]_vars

\* Deleting a blob that is referenced: by transfer history, by a stream as its
\* descriptor, by a claim that has metadata.  The hash is deleted in its first
\* registration only; it may be registered again afterwards.
NextDelete ==
    \/ DoGetBlobRowId("aa")
    \/ blobSeq <= 1 /\ DoDeleteBlob("aa")
    \/ DoAddBlobToHistory("aa", "10.0.0.1", 1, 5, 200)
    \/ \E key \in Keys : DoStoreStream("s1", "file_name", key, "file_name")
    \/ DoSaveSdBlobHashToStream("s1", "aa")
    \/ DoAddClaim("cat", Out(<<0, 1>>, 0), FALSE)
    \/ DoAddMetadataToClaim(Out(<<0, 1>>, 0), Payload("dict", "aa"))

SpecDelete == Init /\ [][NextDelete]_vars

\* Appending ordered piece lists to a created stream and reconstructing it,
\* while a second stream takes single pieces with the same hashes
NextAppend ==
    \/ \E s \in StreamHashes, key \in Keys :
          ~Known(s) /\ DoStoreStream(s, "file_name", key, "sug_file_name")
    \/ \E P \in OrderedLists : Known("s1") /\ DoAddBlobsToStream("s1", P)
    \/ \E b \in SinglePieces({HashPool[1]}, {0}, {"iv0"}, {10}) :
          Known("s2") /\ DoAddBlobsToStream("s2", <<b>>)

SpecAppend == Init /\ [][NextAppend]_vars

\* One created stream whose pieces are appended one at a time at any position
NextGap ==
    \/ \E key \in Keys : DoStoreStream("s1", "file_name", key, "file_name")
    \/ \E b \in SinglePieces({HashPool[i] : i \in 1..MaxBlobId}, Positions, {"iv0"}, {10}) :
          Known("s1") /\ DoAddBlobsToStream("s1", <<b>>)
    \/ DoGetBlobsForStream("s1")

SpecGap == Init /\ [][NextGap]_vars

----------------------------------------------------------------------------
(* Concurrent get_blob_row_id calls: every yield of the method is a point  *)
(* where the reactor may run another caller, so a call is one step per     *)
(* statement                                                               *)

Procs == {1, 2}

Idle == [pc |-> "idle", h |-> "", blob_id |-> False, ret |-> False, err |-> "", at |-> ""]

OthersUnchanged == UNCHANGED <<files, fileSeq, terms, claims, claimSeq, winning, winSeq,
                               metadata, history, histSeq, last>>

\* a caller issues get_blob_row_id(h)
RaceStart(p, h) ==
    /\ procs[p].pc \in {"idle", "done"}
    /\ procs' = [procs EXCEPT ![p] = [Idle EXCEPT !.pc = "lookup", !.h = h]]
    /\ UNCHANGED <<blobs, blobSeq, managed>>
    /\ OthersUnchanged

\* SELECT id FROM blobs WHERE blob_hash=?, and the test that follows it
RaceLookup(p) ==
    /\ procs[p].pc = "lookup"
    /\ LET found == SelectBlobId(DB, procs[p].h)
           blob_id == IF found # {} THEN Min(found) ELSE False
       IN  procs' = [procs EXCEPT ![p] =
                        IF blob_id = False /\ Truthy(procs[p].h)
                        THEN [@ EXCEPT !.pc = "insert"]
                        ELSE [@ EXCEPT !.pc = "done", !.ret = blob_id, !.blob_id = blob_id]]
    /\ UNCHANGED <<blobs, blobSeq, managed>>
    /\ OthersUnchanged

\* INSERT INTO blobs VALUES (NULL, ?)
RaceInsertBlob(p) ==
    /\ procs[p].pc = "insert"
    /\ LET r == InsertBlob(DB, procs[p].h)
       IN  /\ r.db.blobSeq <= MaxBlobId
           /\ blobs' = r.db.blobs /\ blobSeq' = r.db.blobSeq
           /\ procs' = [procs EXCEPT ![p] =
                            IF r.err # ""
                            THEN [@ EXCEPT !.pc = "done", !.err = r.err, !.at = "insert"]
                            ELSE [@ EXCEPT !.pc = "relookup"]]
    /\ UNCHANGED managed
    /\ OthersUnchanged

\* the second SELECT, and query_result[0][0]
RaceRelookup(p) ==
    /\ procs[p].pc = "relookup"
    /\ LET again == SelectBlobId(DB, procs[p].h)
       IN  procs' = [procs EXCEPT ![p] =
                        IF again = {}
                        THEN [@ EXCEPT !.pc = "done", !.err = "IndexError", !.at = "relookup"]
                        ELSE [@ EXCEPT !.pc = "managed", !.blob_id = Min(again)]]
    /\ UNCHANGED <<blobs, blobSeq, managed>>
    /\ OthersUnchanged

\* INSERT INTO managed_blobs VALUES (?, NULL, ...), and the return
RaceInsertManaged(p) ==
    /\ procs[p].pc = "managed"
    /\ \E fk \in FKModes :
         LET r == InsertManaged(DB, procs[p].blob_id, fk)
         IN  /\ managed' = r.db.managed
             /\ procs' = [procs EXCEPT ![p] =
                              IF r.err # ""
                              THEN [@ EXCEPT !.pc = "done", !.err = r.err, !.at = "managed"]
                              ELSE [@ EXCEPT !.pc = "done", !.ret = procs[p].blob_id]]
    /\ UNCHANGED <<blobs, blobSeq>>
    /\ OthersUnchanged

InitRace ==
    /\ InitDB
    /\ last = NoCall
    /\ procs = [p \in Procs |-> Idle]

NextRace ==
    \/ \E p \in Procs, h \in Hashes \cup {""} : RaceStart(p, h)
    \/ \E p \in Procs : RaceLookup(p)
    \/ \E p \in Procs : RaceInsertBlob(p)
    \/ \E p \in Procs : RaceRelookup(p)
    \/ \E p \in Procs : RaceInsertManaged(p)

SpecRace == InitRace /\ [][NextRace]_vars

----------------------------------------------------------------------------
(* query under rerun_if_locked: a write that finds the database locked is   *)
(* run again with the same statement and parameters, a bounded number of    *)
(* times; the statement here is INSERT INTO blobs VALUES (NULL, h).  Whether *)
(* an attempt finds the database locked is decided by the other             *)
(* connections, not by the caller.                                          *)

NoQuery == [pc |-> "idle", h |-> "", n |-> 0, err |-> ""]

\* a locked attempt is run again however many have been made
MayRerun_Always(n) == TRUE

\* a locked attempt is run again while fewer than MaxRetries reruns were made
MayRerun(n) == n < MaxRetries

TablesUnchanged == UNCHANGED <<blobs, blobSeq, managed, files, fileSeq, terms, claims,
                               claimSeq, winning, winSeq, metadata, history, histSeq>>

\* a caller issues the write
QueryStart(p, h) ==
    /\ procs[p].pc \in {"idle", "done"}
    /\ procs' = [procs EXCEPT ![p] = [NoQuery EXCEPT !.pc = "run", !.h = h]]
    /\ TablesUnchanged /\ UNCHANGED last

\* an attempt finds the database locked: it is scheduled again, or the
\* failure is raised to the caller
QueryLocked(p) ==
    /\ procs[p].pc = "run"
    /\ procs' = [procs EXCEPT ![p] =
                    IF MayRerun(procs[p].n) THEN [@ EXCEPT !.n = @ + 1]
                    ELSE [@ EXCEPT !.pc = "done", !.err = "OperationalError"]]
    /\ TablesUnchanged /\ UNCHANGED last

\* an attempt runs the statement; an error of the statement itself is raised
\* to the caller at once
QueryRun(p) ==
    /\ procs[p].pc = "run"
    /\ \E r \in {InsertBlob(DB, procs[p].h)} :
          /\ r.db.blobSeq <= MaxBlobId
          /\ blobs' = r.db.blobs /\ blobSeq' = r.db.blobSeq
          /\ procs' = [procs EXCEPT ![p] = [@ EXCEPT !.pc = "done", !.err = r.err]]
    /\ UNCHANGED <<managed, files, fileSeq, terms, claims, claimSeq, winning, winSeq,
                   metadata, history, histSeq, last>>

QueryAttempt(p) == QueryLocked(p) \/ QueryRun(p)

InitRetry ==
    /\ InitDB
    /\ last = NoCall
    /\ procs = [p \in Procs |-> NoQuery]

NextRetry ==
    \/ \E p \in Procs, h \in Hashes \cup {None} : QueryStart(p, h)
    \/ \E p \in Procs : QueryLocked(p)
    \/ \E p \in Procs : QueryRun(p)

\* the reactor runs every scheduled attempt
SpecRetry ==
    InitRetry /\ [][NextRetry]_vars /\ \A p \in Procs : WF_vars(QueryAttempt(p))

----------------------------------------------------------------------------
(* Concurrent add_blobs_to_stream calls: the stream lookup, the terminator  *)
(* lookup, the terminator insert, the blob lookup and the piece update are  *)
(* separate yields, so other callers run between them                       *)

NoAppend == [pc |-> "idle", s |-> "", P |-> <<>>, i |-> 1, file_id |-> False,
             blob_id |-> False, err |-> ""]

\* the position in the loop over blobs: the next piece, or the return
AtPiece(q, i) ==
    IF i > Len(q.P) THEN [q EXCEPT !.pc = "done", !.i = i]
    ELSE IF q.P[i].blob_hash = None /\ q.P[i].length = 0
    THEN [q EXCEPT !.pc = "check", !.i = i]
    ELSE [q EXCEPT !.pc = "rowid", !.i = i]

Failed(q, e) == [q EXCEPT !.pc = "done", !.err = e]

StreamTablesUnchanged == UNCHANGED <<claims, claimSeq, winning, winSeq, metadata, history,
                                     histSeq, last>>

\* a caller issues add_blobs_to_stream(s, P)
AppendStart(p, s, P) ==
    /\ procs[p].pc \in {"idle", "done"}
    /\ procs' = [procs EXCEPT ![p] = [NoAppend EXCEPT !.pc = "file", !.s = s, !.P = P]]
    /\ UNCHANGED <<blobs, blobSeq, managed, files, fileSeq, terms>>
    /\ StreamTablesUnchanged

\* file_id = yield self.get_file_row_id(stream_hash)
AppendFileId(p) ==
    /\ procs[p].pc = "file"
    /\ procs' = [procs EXCEPT ![p] =
                    AtPiece([@ EXCEPT !.file_id = GetFileRowId(DB, procs[p].s)], 1)]
    /\ UNCHANGED <<blobs, blobSeq, managed, files, fileSeq, terms>>
    /\ StreamTablesUnchanged

\* has_terminator = yield self.get_stream_terminator(file_id), and the test
AppendCheckTerminator(p) ==
    /\ procs[p].pc = "check"
    /\ procs' = [procs EXCEPT ![p] =
                    IF GetStreamTerminator(DB, @.file_id) THEN AtPiece(@, @.i + 1)
                    ELSE [@ EXCEPT !.pc = "insert"]]
    /\ UNCHANGED <<blobs, blobSeq, managed, files, fileSeq, terms>>
    /\ StreamTablesUnchanged

\* yield self.query(query, (file_id, length, iv))
AppendInsertTerminator(p) ==
    /\ procs[p].pc = "insert"
    /\ \E fk \in FKModes :
         \E r \in {InsertTerminator(DB, procs[p].file_id, procs[p].P[procs[p].i].blob_num,
                                    procs[p].P[procs[p].i].iv, fk)} :
            /\ terms' = r.db.terms
            /\ procs' = [procs EXCEPT ![p] =
                            IF r.err # "" THEN Failed(@, r.err) ELSE AtPiece(@, @.i + 1)]
    /\ UNCHANGED <<blobs, blobSeq, managed, files, fileSeq>>
    /\ StreamTablesUnchanged

\* blob_id = yield self.get_blob_row_id(blob.blob_hash)
AppendBlobRowId(p) ==
    /\ procs[p].pc = "rowid"
    /\ \E fk \in FKModes :
         \E r \in {GetBlobRowId(DB, procs[p].P[procs[p].i].blob_hash, fk)} :
            /\ r.db.blobSeq <= MaxBlobId
            /\ blobs' = r.db.blobs /\ blobSeq' = r.db.blobSeq /\ managed' = r.db.managed
            /\ procs' = [procs EXCEPT ![p] =
                            IF r.err # "" THEN Failed(@, r.err)
                            ELSE [@ EXCEPT !.pc = "update", !.blob_id = r.ret]]
    /\ UNCHANGED <<files, fileSeq, terms>>
    /\ StreamTablesUnchanged

\* yield self.query(update_blob_query, (file_id, blob_num, iv, length, blob_id))
AppendUpdatePiece(p) ==
    /\ procs[p].pc = "update"
    /\ \E fk \in FKModes :
         \E r \in {UpdateManagedPiece(DB, procs[p].file_id, procs[p].P[procs[p].i],
                                      procs[p].blob_id, fk)} :
            /\ managed' = r.db.managed
            /\ procs' = [procs EXCEPT ![p] =
                            IF r.err # "" THEN Failed(@, r.err) ELSE AtPiece(@, @.i + 1)]
    /\ UNCHANGED <<blobs, blobSeq, files, fileSeq, terms>>
    /\ StreamTablesUnchanged

\* store_stream, run between the statements of the appends
AppendStoreStream(s) ==
    /\ \E r \in {StoreStream(DB, s, "file_name", "key", "file_name")} :
          /\ r.db.fileSeq <= MaxFileId
          /\ files' = r.db.files /\ fileSeq' = r.db.fileSeq
    /\ UNCHANGED <<blobs, blobSeq, managed, terms, procs>>
    /\ StreamTablesUnchanged

\* the lists appended: a terminator alone, and a piece followed by one
TerminatorLists ==
    {<<Piece(None, 1, "iv0", 0)>>, <<Piece(None, MaxN, "iv1", 0)>>,
     <<Piece("aa", 0, "iv0", 10), Piece(None, 1, "iv1", 0)>>}

InitTerm ==
    /\ InitDB
    /\ last = NoCall
    /\ procs = [p \in Procs |-> NoAppend]

NextTerm ==
    \/ AppendStoreStream("s1")
    \/ \E p \in Procs, P \in TerminatorLists : AppendStart(p, "s1", P)
    \/ \E p \in Procs : AppendFileId(p)
    \/ \E p \in Procs : AppendCheckTerminator(p)
    \/ \E p \in Procs : AppendInsertTerminator(p)
    \/ \E p \in Procs : AppendBlobRowId(p)
    \/ \E p \in Procs : AppendUpdatePiece(p)

SpecTerm == InitTerm /\ [][NextTerm]_vars

----------------------------------------------------------------------------
(* set_winning_claim statement by statement: every yield of the method is a *)
(* statement committed on its own, the process may stop between any two of  *)
(* them, and the caller then runs the election again with the same          *)
(* arguments                                                                *)

MaxCrashes == 1

Electors == {1}

\* the claim statuses and the winning references of a store (everything of
\* the claim tables but last_checked)
Statuses(db) == [i \in DOMAIN db.claims |-> db.claims[i].status]
Refs(db) ==
    [w \in DOMAIN db.winning |->
        [name |-> db.winning[w].name, claim_id |-> db.winning[w].claim_id]]
Outcome(db, e) == [claims |-> Statuses(db), winning |-> Refs(db), err |-> e]

\* the outcome of one uninterrupted run from db
UninterruptedOutcome(db, name, o) ==
    LET r == SetWinningClaim(db, name, o, 0) IN Outcome(r.db, r.err)

NoElect == [pc |-> "idle", name |-> "", o |-> NoOut, id |-> False, is_update |-> FALSE,
            todo |-> <<>>, row_id |-> False, crashes |-> 0, again |-> FALSE,
            exp |-> Outcome(EmptyDB, ""), err |-> ""]

InFlight == {"id", "is_update", "upsert", "select_active", "demote", "row_id", "activate"}

ElectFrame == UNCHANGED <<blobs, blobSeq, managed, files, fileSeq, terms, metadata,
                          history, histSeq, last>>

\* a caller issues set_winning_claim(name, o)
ElectStart(p, name, o) ==
    /\ procs[p].pc \in {"idle", "done"}
    /\ procs' = [procs EXCEPT ![p] =
                    [NoElect EXCEPT !.pc = "id", !.name = name, !.o = o,
                                    !.exp = UninterruptedOutcome(DB, name, o)]]
    /\ UNCHANGED <<claims, claimSeq, winning, winSeq>> /\ ElectFrame

\* the caller runs a completed election once more
ElectAgain(p) ==
    /\ procs[p].pc = "done" /\ procs[p].err = ""
    /\ procs' = [procs EXCEPT ![p] =
                    [NoElect EXCEPT !.pc = "id", !.name = procs[p].name, !.o = procs[p].o,
                                    !.again = TRUE, !.exp = Outcome(DB, "")]]
    /\ UNCHANGED <<claims, claimSeq, winning, winSeq>> /\ ElectFrame

\* the process stops between two statements: what was committed stays
ElectCrash(p) ==
    /\ procs[p].pc \in InFlight
    /\ procs[p].crashes < MaxCrashes
    /\ procs' = [procs EXCEPT ![p] =
                    [NoElect EXCEPT !.pc = "crashed", !.name = procs[p].name,
                                    !.o = procs[p].o, !.crashes = procs[p].crashes + 1,
                                    !.again = procs[p].again, !.exp = procs[p].exp]]
    /\ UNCHANGED <<claims, claimSeq, winning, winSeq>> /\ ElectFrame

\* the election is run again from its first statement
ElectRerun(p) ==
    /\ procs[p].pc = "crashed"
    /\ procs' = [procs EXCEPT ![p].pc = "id"]
    /\ UNCHANGED <<claims, claimSeq, winning, winSeq>> /\ ElectFrame

\* id_query = yield self.query("SELECT id FROM claims WHERE claim_hash=?"), and
\* id_query[0][0]
ElectSelectId(p) ==
    /\ procs[p].pc = "id"
    /\ \E id \in {GetClaimRowId(DB, GetClaimHash(procs[p].o))} :
          procs' = [procs EXCEPT ![p] =
                       IF id = False THEN [@ EXCEPT !.pc = "done", !.err = "IndexError"]
                       ELSE [@ EXCEPT !.pc = "is_update", !.id = id]]
    /\ UNCHANGED <<claims, claimSeq, winning, winSeq>> /\ ElectFrame

\* is_update = yield self.query("SELECT * FROM winning_claims WHERE name=?")
ElectIsUpdate(p) ==
    /\ procs[p].pc = "is_update"
    /\ procs' = [procs EXCEPT ![p] =
                    [@ EXCEPT !.pc = "upsert", !.is_update = IsUpdate(DB, procs[p].name)]]
    /\ UNCHANGED <<claims, claimSeq, winning, winSeq>> /\ ElectFrame

\* the UPDATE or the INSERT of winning_claims, at the time utils.time() reads
ElectUpsert(p, t) ==
    /\ procs[p].pc = "upsert"
    /\ \E r \in {IF procs[p].is_update
                  THEN UpdateWinning(DB, procs[p].name, procs[p].id, t)
                  ELSE InsertWinning(DB, procs[p].name, procs[p].id, t)} :
          /\ winning' = r.db.winning /\ winSeq' = r.db.winSeq
          /\ procs' = [procs EXCEPT ![p] =
                          IF r.err # "" THEN [@ EXCEPT !.pc = "done", !.err = r.err]
                          ELSE [@ EXCEPT !.pc = "select_active"]]
    /\ UNCHANGED <<claims, claimSeq>> /\ ElectFrame

\* inactive_claims = yield self.query("SELECT id FROM claims WHERE name=? AND
\* status=?")
ElectSelectActive(p) ==
    /\ procs[p].pc = "select_active"
    /\ \E ids \in {InIdOrder(SelectActive(DB, procs[p].name))} :
          procs' = [procs EXCEPT ![p] =
                       [@ EXCEPT !.pc = IF ids = <<>> THEN "row_id" ELSE "demote",
                                 !.todo = ids]]
    /\ UNCHANGED <<claims, claimSeq, winning, winSeq>> /\ ElectFrame

\* one turn of the loop: UPDATE claims SET status=INACTIVE WHERE id=?
ElectDemote(p) ==
    /\ procs[p].pc = "demote"
    /\ \E r \in {SetClaimStatus(DB, Head(procs[p].todo), INACTIVE)} :
          /\ claims' = r.db.claims
          /\ procs' = [procs EXCEPT ![p] =
                          [@ EXCEPT !.pc = IF Tail(procs[p].todo) = <<>>
                                           THEN "row_id" ELSE "demote",
                                    !.todo = Tail(procs[p].todo)]]
    /\ UNCHANGED <<claimSeq, winning, winSeq>> /\ ElectFrame

\* update_claim_status: row_id = yield self.get_claim_row_id(claim_hash), and
\* the assertion
ElectRowId(p) ==
    /\ procs[p].pc = "row_id"
    /\ \E row_id \in {GetClaimRowId(DB, GetClaimHash(procs[p].o))} :
          procs' = [procs EXCEPT ![p] =
                       IF row_id = False
                       THEN [@ EXCEPT !.pc = "done", !.err = "AssertionError"]
                       ELSE [@ EXCEPT !.pc = "activate", !.row_id = row_id]]
    /\ UNCHANGED <<claims, claimSeq, winning, winSeq>> /\ ElectFrame

\* update_claim_status: UPDATE claims SET status=ACTIVE WHERE id=?, and the
\* return of set_winning_claim
ElectActivate(p) ==
    /\ procs[p].pc = "activate"
    /\ \E r \in {SetClaimStatus(DB, procs[p].row_id, ACTIVE)} :
          /\ claims' = r.db.claims
          /\ procs' = [procs EXCEPT ![p] = [@ EXCEPT !.pc = "done"]]
    /\ UNCHANGED <<claimSeq, winning, winSeq>> /\ ElectFrame

\* a statement of the election in flight, or its re-run after a stop
ElectStep(p) ==
    \/ ElectRerun(p) \/ ElectSelectId(p) \/ ElectIsUpdate(p)
    \/ \E t \in Times : ElectUpsert(p, t)
    \/ ElectSelectActive(p) \/ ElectDemote(p) \/ ElectRowId(p) \/ ElectActivate(p)

\* claims are observed and set ACTIVE while no election is in flight
ElectObserve(o) ==
    /\ \A p \in DOMAIN procs : procs[p].pc = "idle"
    /\ \E r \in {AddClaim(DB, NameOf(o), o.txid, o.nout, FALSE),
                  UpdateClaimStatus(DB, GetClaimHash(o), ACTIVE)} :
          r.err = "" /\ Bounded(r.db) /\ SetDB(r.db)
    /\ UNCHANGED <<last, procs>>

InitElect ==
    /\ InitDB
    /\ last = NoCall
    /\ procs = [p \in Electors |-> NoElect]

NextElect ==
    \/ \E o \in Rivals : ElectObserve(o)
    \/ \E p \in Electors, name \in Names, o \in Rivals : ElectStart(p, name, o)
    \/ \E p \in Electors : ElectAgain(p)
    \/ \E p \in Electors : ElectCrash(p)
    \/ \E p \in Electors : ElectRerun(p)
    \/ \E p \in Electors : ElectSelectId(p)
    \/ \E p \in Electors : ElectIsUpdate(p)
    \/ \E p \in Electors, t \in Times : ElectUpsert(p, t)
    \/ \E p \in Electors : ElectSelectActive(p)
    \/ \E p \in Electors : ElectDemote(p)
    \/ \E p \in Electors : ElectRowId(p)
    \/ \E p \in Electors : ElectActivate(p)

\* the reactor runs the next statement of a call in flight, and the caller
\* runs a stopped election again
SpecElect ==
    InitElect /\ [][NextElect]_vars /\ \A p \in Electors : WF_vars(ElectStep(p))

----------------------------------------------------------------------------
(* Two set_winning_claim calls for the same name in flight together: the    *)
(* reactor runs the statements of the two generators in any order           *)

\* caller p elects outpoint o for the name both rivals claim, once
DuelStart(p, o) ==
    /\ procs[p].pc = "idle"
    /\ ElectStart(p, NameOf(o), o)

InitDuel ==
    /\ InitDB
    /\ last = NoCall
    /\ procs = [p \in Procs |-> NoElect]

NextDuel ==
    \/ \E o \in Rivals : ElectObserve(o)
    \/ \E p \in Procs, o \in Rivals : DuelStart(p, o)
    \/ \E p \in Procs : ElectSelectId(p)
    \/ \E p \in Procs : ElectIsUpdate(p)
    \/ \E p \in Procs, t \in Times : ElectUpsert(p, t)
    \/ \E p \in Procs : ElectSelectActive(p)
    \/ \E p \in Procs : ElectDemote(p)
    \/ \E p \in Procs : ElectRowId(p)
    \/ \E p \in Procs : ElectActivate(p)

SpecDuel == InitDuel /\ [][NextDuel]_vars

----------------------------------------------------------------------------
(* add_completed_blob beside get_blob_row_id on the same hash: the lookup  *)
(* inside add_completed_blob and inside update_blob_verified_timestamp is  *)
(* get_blob_row_id, statement by statement, and each UPDATE is a statement *)
(* of its own                                                              *)

\* a caller that has issued nothing
NoWrite == [pc |-> "idle", h |-> "", blob_id |-> False, ret |-> False, err |-> "",
            at |-> "", call |-> "", stage |-> 0, length |-> NULL, t |-> NULL]

\* UPDATE managed_blobs SET blob_length=?, next_announce_time=? WHERE id=?
SetCompleted(db, id, length, t) ==
    IF id \in DOMAIN db.managed
    THEN [db EXCEPT !.managed[id].blob_length = length,
                    !.managed[id].next_announce_time = t]
    ELSE db

\* UPDATE managed_blobs SET last_verified_time=? WHERE id=?
SetVerified(db, id, c) ==
    IF id \in DOMAIN db.managed
    THEN [db EXCEPT !.managed[id].last_verified_time = c] ELSE db

\* caller p issues get_blob_row_id(h)
RegisterStart(p, h) ==
    /\ procs[p].pc = "idle"
    /\ procs' = [procs EXCEPT ![p] =
                     [NoWrite EXCEPT !.pc = "lookup", !.h = h, !.call = "get_blob_row_id"]]
    /\ UNCHANGED <<blobs, blobSeq, managed>>
    /\ OthersUnchanged

\* caller p issues add_completed_blob(h, length, t): its first statement is
\* the lookup of get_blob_row_id
CompleteStart(p, h, length, t) ==
    /\ procs[p].pc = "idle"
    /\ procs' = [procs EXCEPT ![p] =
                     [NoWrite EXCEPT !.pc = "lookup", !.h = h, !.call = "add_completed_blob",
                                     !.stage = 1, !.length = length, !.t = t]]
    /\ UNCHANGED <<blobs, blobSeq, managed>>
    /\ OthersUnchanged

\* add_completed_blob after its get_blob_row_id returned: the UPDATE of length
\* and deadline, then update_blob_verified_timestamp starts with a lookup
CompleteUpdate(p) ==
    /\ procs[p].call = "add_completed_blob" /\ procs[p].stage = 1
    /\ procs[p].pc = "done" /\ procs[p].err = ""
    /\ managed' = SetCompleted(DB, procs[p].ret, procs[p].length, procs[p].t).managed
    /\ procs' = [procs EXCEPT ![p] = [@ EXCEPT !.stage = 2, !.pc = "lookup"]]
    /\ UNCHANGED <<blobs, blobSeq>>
    /\ OthersUnchanged

\* update_blob_verified_timestamp after its get_blob_row_id returned: the
\* UPDATE of last_verified_time at clock reading c, and the return
CompleteVerify(p, c) ==
    /\ procs[p].call = "add_completed_blob" /\ procs[p].stage = 2
    /\ procs[p].pc = "done" /\ procs[p].err = ""
    /\ managed' = SetVerified(DB, procs[p].ret, c).managed
    /\ procs' = [procs EXCEPT ![p] = [@ EXCEPT !.stage = 3]]
    /\ UNCHANGED <<blobs, blobSeq>>
    /\ OthersUnchanged

\* the call of p has returned without an error
Returned(p) ==
    /\ procs[p].pc = "done" /\ procs[p].err = ""
    /\ procs[p].call = "add_completed_blob" => procs[p].stage = 3

InitWrite ==
    /\ InitDB
    /\ last = NoCall
    /\ procs = [p \in Procs |-> NoWrite]

NextWrite ==
    \/ \E p \in Procs, h \in Hashes : RegisterStart(p, h)
    \/ \E p \in Procs, h \in Hashes, length \in {10, 20}, t \in Times :
          CompleteStart(p, h, length, t)
    \/ \E p \in Procs : RaceLookup(p)
    \/ \E p \in Procs : RaceInsertBlob(p)
    \/ \E p \in Procs : RaceRelookup(p)
    \/ \E p \in Procs : RaceInsertManaged(p)
    \/ \E p \in Procs : CompleteUpdate(p)
    \/ \E p \in Procs, c \in ClockHalves : CompleteVerify(p, c)

SpecWrite == InitWrite /\ [][NextWrite]_vars

----------------------------------------------------------------------------
(* Properties of the blob registry and the stream index *)

\* C1: two successive get_blob_row_id(h) calls on a non-empty hash h, from any
\* state of the store, return the same identity, and after them the store
\* holds exactly one blobs row with hash h.
C1_RegisterIdempotent ==
    [][(/\ last.op = "get_blob_row_id" /\ last.err = "" /\ Truthy(last.s)
        /\ last'.op = "get_blob_row_id" /\ last'.s = last.s)
       => (/\ last'.err = ""
           /\ last'.ret = last.ret
           /\ SelectBlobId(DB', last.s) = {last.ret})]_vars

\* a hash registered again after a delete: the first id is gone, the call
\* returned the one row that holds the hash
C1_Witness ==
    /\ last.op = "get_blob_row_id" /\ last.err = "" /\ Truthy(last.s)
    /\ last.ret > 1 /\ 1 \notin DOMAIN blobs
    /\ SelectBlobId(DB, last.s) = {last.ret}

\* C3: after create(s) and append_pieces(s, P), P being N pieces with distinct
\* hashes at positions 0..N-1 and then a terminator marker at position N,
\* reconstruct(s) returns exactly the N+1 entries of P: the pieces in position
\* order with their hash, position, iv and length, then (None, N, iv, 0).
C3_AppendThenReconstruct ==
    [][(/\ last.op = "store_stream" /\ last.err = ""
        /\ last'.op = "add_blobs_to_stream" /\ last'.s = last.s
        /\ last'.P \in OrderedLists)
       => (/\ last'.err = ""
           /\ GetBlobsForStream(DB', last.s) = [seq |-> last'.P, err |-> ""]
           /\ Len(GetBlobsForStream(DB', last.s).seq) = Len(last'.P))]_vars

\* MaxN pieces and a terminator were appended to the stream, one of the pieces
\* taken from the other stream, and reconstruct returned them
C3_Witness ==
    /\ last.op = "add_blobs_to_stream" /\ last.s = "s1" /\ last.err = ""
    /\ Len(last.P) = MaxN + 1
    /\ GetBlobsForStream(DB, "s1") = [seq |-> last.P, err |-> ""]
    /\ last.P[MaxN + 1].blob_hash = None /\ last.P[MaxN + 1].blob_num = MaxN
    /\ 1 \in DOMAIN files /\ files[1].stream_hash = "s2"
    /\ 1 \in DOMAIN managed /\ managed[1].file_id = 2

\* the positions the pieces owned by stream s occupy, the number of rows it
\* owns, and the smallest position it does not occupy
OwnedBy(s) == {i \in DOMAIN managed : managed[i].file_id = GetFileRowId(DB, s)}
Occupied(s) == {managed[i].stream_position : i \in OwnedBy(s)}
FirstGap(s) == Min({n \in 0..(MaxPos + 1) : n \notin Occupied(s)})
PieceEntries(seq) == {i \in 1..Len(seq) : seq[i].blob_hash # None}

\* C4 as stated: reconstruct returns the pieces at positions 0..g-1, g the
\* smallest missing position, and no piece at a position greater than g.
C4_TruncatesAtFirstGap ==
    (last.op = "get_blobs_for_stream" /\ last.err = "" /\ Known(last.s))
    => /\ \A n \in 0..(FirstGap(last.s) - 1) :
              \E i \in PieceEntries(last.rseq) : last.rseq[i].blob_num = n
       /\ \A i \in PieceEntries(last.rseq) : last.rseq[i].blob_num <= FirstGap(last.s)

\* C4 amended: reconstruct returns, in increasing position order, one entry
\* of an owned piece for every occupied position below the number of rows the
\* stream owns, hence for each of 0..g-1, and no piece at or beyond that number.
C4_TruncatesAtCount ==
    (last.op = "get_blobs_for_stream" /\ last.err = "" /\ Known(last.s))
    => LET seq == last.rseq
           count == Cardinality(OwnedBy(last.s))
       IN  /\ {seq[i].blob_num : i \in PieceEntries(seq)}
                = {n \in Occupied(last.s) : n < count}
           /\ \A i, j \in PieceEntries(seq) : i < j => seq[i].blob_num < seq[j].blob_num
           /\ \A i \in PieceEntries(seq) :
                 \E b \in OwnedBy(last.s) : b \in DOMAIN blobs /\ seq[i] = PieceInfo(DB, b)
           /\ \A n \in 0..(FirstGap(last.s) - 1) :
                 \E i \in PieceEntries(seq) : seq[i].blob_num = n

\* pieces at 0, 2 and 3: reconstruct returned the pieces at 0 and at 2
C4_Witness ==
    /\ last.op = "get_blobs_for_stream" /\ last.err = ""
    /\ Occupied(last.s) = {0, 2, 3}
    /\ Len(last.rseq) = 2
    /\ last.rseq[1].blob_num = 0 /\ last.rseq[2].blob_num = 2

\* C9: create(stream_hash, ...) on a hash without a files row inserts one row,
\* in status pending, and changes nothing else; on a hash that has a row (made
\* by create or by save) it fails with DuplicateStreamHashError and leaves
\* every row of every table as it was.
C9_CreateOrDuplicate ==
    [][(last'.op = "store_stream" /\ <<DB, last>> # <<DB', last'>>)
       => IF GetFileRowId(DB, last'.s) # False
          THEN last'.err = "DuplicateStreamHashError" /\ DB' = DB
          ELSE /\ last'.err = ""
               /\ \E i \in DOMAIN files' \ DOMAIN files :
                     /\ files' = Put(files, i, files'[i])
                     /\ files'[i].status = PENDING_STREAM
                     /\ files'[i].stream_hash = last'.s
                     /\ files'[i].decryption_key = last'.a[2]
               /\ [DB' EXCEPT !.files = files, !.fileSeq = fileSeq] = DB]_vars

\* create failed on a hash whose row was made by save
C9_Witness ==
    /\ last.op = "store_stream" /\ last.err = "DuplicateStreamHashError"
    /\ \E i \in DOMAIN files : /\ files[i].stream_hash = last.s
                                /\ files[i].decryption_key = None
                                /\ files[i].blob_data_rate = 5
    /\ Cardinality(DOMAIN files) = 2 /\ DOMAIN blobs # {}

\* C2: however the statements of concurrent get_blob_row_id calls on the same
\* unseen hash interleave, the store never holds two blobs rows with one hash,
\* every call that returns an identity returns the id of the one row with its
\* hash, and the race shows only as an IntegrityError raised by the losing
\* INSERT INTO blobs: no other statement fails, and once no call is in flight
\* every blob has its one placeholder managed_blobs row.
C2_RaceSafe ==
    /\ \A h \in Hashes \cup {""} : Cardinality(SelectBlobId(DB, h)) <= 1
    /\ \A p \in DOMAIN procs :
          procs[p].pc = "done" =>
             /\ (procs[p].err = "" /\ Truthy(procs[p].h))
                   => SelectBlobId(DB, procs[p].h) = {procs[p].ret}
             /\ procs[p].err # ""
                   => /\ procs[p].err = "IntegrityError" /\ procs[p].at = "insert"
                      /\ SelectBlobId(DB, procs[p].h) # {}
    /\ (\A p \in DOMAIN procs : procs[p].pc \in {"idle", "done"})
          => /\ DOMAIN managed = DOMAIN blobs
             /\ \A i \in DOMAIN managed : managed[i] = NullManaged

\* both callers looked the hash up before either inserted it: one returned the
\* identity, the other's insert was rejected
C2_Witness ==
    /\ DOMAIN procs = Procs
    /\ procs[1].pc = "done" /\ procs[2].pc = "done" /\ procs[1].h = procs[2].h
    /\ procs[1].err = "" /\ procs[1].ret = 2
    /\ procs[2].err = "IntegrityError"

----------------------------------------------------------------------------
(* Claims and winners *)

KnownClaim(db, o) == GetClaimRowId(db, GetClaimHash(o)) # False
ClaimRow(db, o) == db.claims[GetClaimRowId(db, GetClaimHash(o))]
WinningRows(db, n) == {w \in DOMAIN db.winning : db.winning[w].name = n}
RowsOfClaim(db, o) == {i \in DOMAIN db.claims : db.claims[i].claim_hash = GetClaimHash(o)}

\* C5: for two distinct known claims A and B under a name, a completed
\* elect_winner(name, A) followed by a completed elect_winner(name, B) leaves
\* exactly one winning row for the name, referencing B, with B ACTIVE and A
\* INACTIVE; and no name ever has more than one winning row.
C5_ElectAThenB ==
    [][/\ (/\ last.op = "set_winning_claim" /\ last.err = ""
           /\ last'.op = "set_winning_claim" /\ last'.err = ""
           /\ last'.s = last.s
           /\ GetClaimHash(last'.o) # GetClaimHash(last.o)
           /\ KnownClaim(DB, last.o) /\ KnownClaim(DB, last'.o)
           /\ ClaimRow(DB, last.o).name = last.s
           /\ ClaimRow(DB, last'.o).name = last.s)
          => LET A == GetClaimRowId(DB, GetClaimHash(last.o))
                 B == GetClaimRowId(DB, GetClaimHash(last'.o))
             IN  /\ Cardinality(WinningRows(DB', last.s)) = 1
                 /\ \A w \in WinningRows(DB', last.s) : winning'[w].claim_id = B
                 /\ claims'[B].status = ACTIVE
                 /\ claims'[A].status = INACTIVE
       /\ \A n \in Names : Cardinality(WinningRows(DB', n)) <= 1]_vars

\* a second election under a name has completed: the winning row references
\* the newly elected claim and another claim of the name is INACTIVE
C5_Witness ==
    /\ last.op = "set_winning_claim" /\ last.err = ""
    /\ KnownClaim(DB, last.o) /\ ClaimRow(DB, last.o).name = last.s
    /\ ClaimRow(DB, last.o).status = ACTIVE
    /\ \E w \in WinningRows(DB, last.s) :
          winning[w].claim_id = GetClaimRowId(DB, GetClaimHash(last.o))
    /\ \E i \in DOMAIN claims :
          /\ claims[i].name = last.s /\ claims[i].status = INACTIVE
          /\ claims[i].claim_hash # GetClaimHash(last.o)

\* C6 as stated: observe inserts one INIT row for an unseen claim, and on a
\* known claim it completes normally and leaves every claim row unchanged;
\* there is at most one claim row per derived identity.
C6_ObserveIdempotent ==
    [][last'.op = "add_claim"
          => /\ ~KnownClaim(DB, last'.o)
                   => /\ last'.err = ""
                      /\ Cardinality(RowsOfClaim(DB', last'.o)) = 1
                      /\ ClaimRow(DB', last'.o).status = INIT
             /\ KnownClaim(DB, last'.o) => (last'.err = "" /\ claims' = claims)
             /\ \A o \in Outpoints : Cardinality(RowsOfClaim(DB', o)) <= 1]_vars

\* C6: observe inserts one INIT row for an unseen claim; on a known claim it
\* fails with the "Claim already known" assertion and changes no table; there
\* is at most one claim row per derived identity.
C6_ObserveOnceThenFails ==
    [][last'.op = "add_claim"
          => /\ ~KnownClaim(DB, last'.o)
                   => /\ last'.err = ""
                      /\ Cardinality(RowsOfClaim(DB', last'.o)) = 1
                      /\ ClaimRow(DB', last'.o).status = INIT
                      /\ ClaimRow(DB', last'.o).name = last'.s
                      /\ \A i \in DOMAIN claims : claims'[i] = claims[i]
                      /\ Cardinality(DOMAIN claims') = Cardinality(DOMAIN claims) + 1
             /\ KnownClaim(DB, last'.o)
                   => (last'.err = "AssertionError" /\ DB' = DB)
             /\ \A o \in Outpoints : Cardinality(RowsOfClaim(DB', o)) <= 1]_vars

\* observe has failed on a claim that is known and currently ACTIVE
C6_Witness ==
    /\ last.op = "add_claim" /\ last.err = "AssertionError"
    /\ KnownClaim(DB, last.o) /\ ClaimRow(DB, last.o).status = ACTIVE

----------------------------------------------------------------------------
(* Metadata *)

\* the payload is a dict that embeds a descriptor hash
EmbedsHash(m) == m.kind = "dict" /\ Truthy(m.sd)

\* what C7 promises after attach_metadata(o, m)
AttachedPending(d0, d1, o, m, rst) ==
    LET id == GetClaimRowId(d0, GetClaimHash(o))
    IN  /\ rst = PENDING
        /\ d1.claims[id].status = PENDING
        /\ Cardinality(SelectBlobId(d1, m.sd)) = 1
        /\ SelectBlobId(d1, m.sd) = {d1.claims[id].sd_blob_id}
        /\ id \in DOMAIN d1.metadata
        /\ d1.metadata[id] = MetadataToB58(m).value
        /\ DecodeB58Metadata(d1.metadata[id]) = m

LacksField(m) == m.kind \in {"nofield", "nosources"}

\* C8: on a known claim attach_metadata never raises and returns the status
\* the claim is left in, PENDING or INVALID_METADATA; PENDING comes with the
\* encoded payload stored, INVALID_METADATA with the metadata rows untouched;
\* a payload lacking the descriptor field gives INVALID_METADATA and no new
\* metadata row.  On an unknown claim, and only then, the call fails.
C8_AttachNeverRaises ==
    [][last'.op = "add_metadata_to_claim"
          => LET id == GetClaimRowId(DB, GetClaimHash(last'.o))
             IN  /\ (id = False) <=> (last'.err # "")
                 /\ id # False
                       => /\ last'.rst = claims'[id].status
                          /\ last'.rst \in {PENDING, INVALID_METADATA}
                          /\ last'.rst = PENDING
                                => /\ id \notin DOMAIN metadata
                                   /\ metadata' = Put(metadata, id,
                                                      MetadataToB58(last'.m).value)
                          /\ last'.rst = INVALID_METADATA => metadata' = metadata
                          /\ LacksField(last'.m)
                                => (last'.rst = INVALID_METADATA /\ metadata' = metadata)
                          /\ \A i \in DOMAIN claims \ {id} : claims'[i] = claims[i]]_vars

\* a payload without the descriptor field has been attached to a known claim
C8_Witness ==
    /\ last.op = "add_metadata_to_claim" /\ last.err = ""
    /\ LacksField(last.m) /\ last.rst = INVALID_METADATA
    /\ KnownClaim(DB, last.o) /\ ClaimRow(DB, last.o).status = INVALID_METADATA
    /\ GetClaimRowId(DB, GetClaimHash(last.o)) \notin DOMAIN metadata

\* C10: no blob row has a null or empty hash.
C10_NoNullOrEmptyHash ==
    \A b \in DOMAIN blobs : Truthy(blobs[b])

----------------------------------------------------------------------------
(* Announce schedule *)

Elems(q) == {q[i] : i \in DOMAIN q}

\* the deadline stored for a registered blob (NULL when never set)
Deadline(i) == managed[i].next_announce_time

\* C11: at a whole-second clock reading now, get_blobs_to_announce returns,
\* each once, exactly the registered hashes whose stored deadline is
\* strictly less than now; a hash whose deadline equals now, in particular
\* one rescheduled to now by the call before, and a hash whose deadline was
\* never set are not returned.
C11_DueStrictlyBefore ==
    [][(last'.op = "get_blobs_to_announce" /\ last'.t % 2 = 0)
          => LET now == last'.t \div 2
                 registered == DOMAIN blobs \cap DOMAIN managed
             IN  /\ Elems(last'.rhs) =
                        {blobs[i] : i \in {j \in registered :
                                              Deadline(j) # NULL /\ Deadline(j) < now}}
                 /\ Len(last'.rhs) = Cardinality(Elems(last'.rhs))
                 /\ \A i \in registered :
                        (Deadline(i) = now \/ Deadline(i) = NULL)
                           => blobs[i] \notin Elems(last'.rhs)
                 /\ (/\ last.op = "update_next_blob_announce" /\ last.err = ""
                     /\ last.t = now)
                       => \A h \in Elems(last.hs) : h \notin Elems(last'.rhs)]_vars

\* a poll has returned one hash and left out a hash whose deadline is the
\* reading itself and a hash that has no deadline
C11_Witness ==
    /\ last.op = "get_blobs_to_announce" /\ last.t % 2 = 0
    /\ Len(last.rhs) = 1
    /\ \E i, j \in DOMAIN blobs \cap DOMAIN managed :
          /\ Deadline(i) = last.t \div 2
          /\ Deadline(j) = NULL

----------------------------------------------------------------------------
(* Deleting blobs *)

\* the metadata rows of the claims whose descriptor link is blob id
MetadataLinkedTo(db, id) ==
    {c \in DOMAIN db.claims \cap DOMAIN db.metadata : db.claims[c].sd_blob_id = id}

\* C12: delete_blob of a registered hash completes, and afterwards there is
\* no blobs row with the hash, no managed_blobs row with its id and no
\* metadata row of a claim linked to it.
C12_DeleteRemovesAll ==
    [][(last'.op = "delete_blob" /\ SelectBlobId(DB, last'.s) # {})
          => LET id == Min(SelectBlobId(DB, last'.s))
             IN  /\ last'.err = ""
                 /\ SelectBlobId(DB', last'.s) = {}
                 /\ id \notin DOMAIN managed'
                 /\ MetadataLinkedTo(DB', id) = {}]_vars

----------------------------------------------------------------------------
(* File records *)

RowsOfStream(db, s) == {i \in DOMAIN db.files : db.files[i].stream_hash = s}

\* C13: save_lbry_file(stream_hash, rate) leaves exactly one files row for
\* the hash and returns its id, which is the id the hash had before when it
\* had a row; the row's status is "pending" and its rate the given rate, or 0
\* for an unspecified rate; the other columns of an existing row and all
\* other rows are unchanged.
C13_SaveIsUpsert ==
    [][(last'.op = "save_lbry_file" /\ last'.s \in StreamHashes)
          => LET before == RowsOfStream(DB, last'.s)
                 id == last'.ret
             IN  /\ last'.err = ""
                 /\ Cardinality(before) <= 1
                 /\ RowsOfStream(DB', last'.s) = {id}
                 /\ before # {} => before = {id}
                 /\ files'[id].status = PENDING_STREAM
                 /\ files'[id].blob_data_rate = (IF last'.t = NULL THEN 0 ELSE last'.t)
                 /\ before # {}
                       => /\ files'[id].decryption_key = files[id].decryption_key
                          /\ files'[id].published_file_name = files[id].published_file_name
                          /\ files'[id].sd_blob_id = files[id].sd_blob_id
                          /\ files'[id].claim_id = files[id].claim_id
                 /\ \A i \in DOMAIN files \ {id} : i \in DOMAIN files' /\ files'[i] = files[i]
                 /\ DOMAIN files' = DOMAIN files \cup {id}]_vars

\* save without a rate has reset a stopped stream that has a key and a
\* descriptor blob
C13_Witness ==
    /\ last.op = "save_lbry_file" /\ last.t = NULL /\ last.err = ""
    /\ last.ret \in DOMAIN files
    /\ files[last.ret].decryption_key = "key"
    /\ files[last.ret].sd_blob_id # NULL
    /\ files[last.ret].blob_data_rate = 0
    /\ files[last.ret].status = PENDING_STREAM

----------------------------------------------------------------------------
(* Retrying locked writes *)

\* C14: a write that finds the database locked is run again at most
\* MaxRetries times, each time with the same statement and parameters and
\* without touching the store; when an attempt is not locked the statement
\* takes effect once and the caller sees no lock error; when every attempt is
\* locked the lock error is raised with the store unchanged; every call
\* ends.
C14_BoundedRetry ==
    /\ [][\A p \in Procs :
            (procs[p].pc = "run" /\ procs'[p] # procs[p])
               => /\ procs'[p].h = procs[p].h
                  /\ procs'[p].n <= MaxRetries
                  /\ \/ /\ procs'[p].pc = "run" /\ procs'[p].n = procs[p].n + 1
                        /\ DB' = DB
                     \/ /\ procs'[p].pc = "done" /\ procs'[p].err = "OperationalError"
                        /\ procs[p].n = MaxRetries
                        /\ DB' = DB
                     \/ /\ procs'[p].pc = "done" /\ procs'[p].err = ""
                        /\ SelectBlobId(DB, procs[p].h) = {}
                        /\ Cardinality(SelectBlobId(DB', procs[p].h)) = 1
                        /\ blobs' = Put(blobs, Min(SelectBlobId(DB', procs[p].h)), procs[p].h)
                     \/ /\ procs'[p].pc = "done" /\ procs'[p].err = "IntegrityError"
                        /\ DB' = DB]_vars
    /\ \A p \in Procs : (procs[p].pc = "run") ~> (procs[p].pc = "done")

\* one call was locked on every attempt and gave up, another was locked
\* MaxRetries times and then stored its row
C14_Witness ==
    /\ procs[1].pc = "done" /\ procs[1].err = "OperationalError"
    /\ procs[1].n = MaxRetries
    /\ procs[2].pc = "done" /\ procs[2].err = "" /\ procs[2].n = MaxRetries
    /\ SelectBlobId(DB, procs[1].h) = {}
    /\ SelectBlobId(DB, procs[2].h) # {}

----------------------------------------------------------------------------
(* Properties of the stream terminator and of reconstruction *)

\* the terminator rows of the stream with hash s
TerminatorsOf(s) ==
    {f \in DOMAIN terms : f \in DOMAIN files /\ files[f].stream_hash = s}

\* C15: at most one terminator is ever stored per stream, also when
\* add_blobs_to_stream calls on the same stream interleave statement by
\* statement: every stream has zero or one stream_terminators row, no step
\* removes or rewrites a stored row (its blob count and iv stay), and a
\* terminator piece whose lookup finds the stream's row is skipped without an
\* error and without a write.
C15_OneTerminator ==
    /\ [](\A s \in StreamHashes : Cardinality(TerminatorsOf(s)) <= 1)
    /\ [][/\ \A f \in DOMAIN terms : f \in DOMAIN terms' /\ terms'[f] = terms[f]
          /\ \A p \in Procs :
                (/\ procs[p].pc = "check" /\ procs'[p] # procs[p]
                 /\ procs[p].file_id \in DOMAIN terms)
                   => /\ procs'[p].err = ""
                      /\ procs'[p].i = procs[p].i + 1
                      /\ procs'[p].pc # "insert"
                      /\ DB' = DB]_vars

\* both callers appended a terminator to s1 with different counts and ivs,
\* neither failed, and the row is the one of the first
C15_Witness ==
    /\ procs[1].pc = "done" /\ procs[1].err = ""
    /\ procs[1].P = <<Piece(None, 1, "iv0", 0)>>
    /\ procs[2].pc = "done" /\ procs[2].err = ""
    /\ procs[2].P = <<Piece(None, MaxN, "iv1", 0)>>
    /\ procs[1].file_id = 1 /\ procs[2].file_id = 1
    /\ TerminatorsOf("s1") = {1}
    /\ terms[1] = [blob_count |-> 1, iv |-> "iv0"]

\* the interleaving in which both lookups precede both inserts
C15_RacingInsertRaises ==
    /\ procs[1].pc = "done" /\ procs[1].err = ""
    /\ procs[2].pc = "done" /\ procs[2].err = "IntegrityError"
    /\ procs[2].P = <<Piece(None, MaxN, "iv1", 0)>>
    /\ procs[2].file_id = 1 /\ 1 \in DOMAIN files

\* C16: for a stream without a terminator, reconstruct returns one entry per
\* piece appended to it (k entries after k pieces of distinct hashes, k+1 after
\* one more), whatever position numbers the pieces carry; stated for pieces
\* that all carry position 0, as the test appends them.
C16_OneEntryPerPiece ==
    (/\ last.op = "get_blobs_for_stream" /\ last.err = "" /\ Known(last.s)
     /\ ~GetStreamTerminator(DB, GetFileRowId(DB, last.s))
     /\ Occupied(last.s) \subseteq {0})
    => Len(last.rseq) = Cardinality(OwnedBy(last.s))

----------------------------------------------------------------------------
(* Properties of the lookups of the stream index *)

\* C17: after create(stream_hash, file_name, key, suggested_file_name) the
\* stream-info lookup for stream_hash returns the triple (key, file_name,
\* suggested_file_name) supplied at creation, also when file_name differs from
\* suggested_file_name.
C17_InfoRoundTrip ==
    [][(/\ last.op = "store_stream" /\ last.err = ""
        /\ last'.op = "get_stream_info" /\ last'.s = last.s)
       => (/\ last'.err = ""
           /\ last'.val = Row(<<last.a[2], last.a[1], last.a[3]>>))]_vars

\* the hashes of the entries of a reconstruction
HashesOf(seq) == {seq[i].blob_hash : i \in 1..Len(seq)}

\* C18: the stream-of-blob lookup for hash h returns the stream h was most
\* recently appended to: after append_pieces(s, [h]) on a created stream s it
\* returns s, and reconstruct of every other stream does not contain h.
C18_LookupReturnsLatestStream ==
    [][(/\ last'.op = "add_blobs_to_stream" /\ last'.err = "" /\ Known(last'.s)
        /\ Len(last'.P) = 1 /\ Truthy(last'.P[1].blob_hash))
       => (/\ GetStreamOfBlobhash(DB', last'.P[1].blob_hash) = Scalar(last'.s)
           /\ \A s2 \in StreamHashes \ {last'.s} :
                 last'.P[1].blob_hash \notin HashesOf(GetBlobsForStream(DB', s2).seq))]_vars

\* what the lookup does return after such an append: the result row whose one
\* column is the stream hash
C18_RowNamesLatestStream ==
    [][(/\ last'.op = "add_blobs_to_stream" /\ last'.err = "" /\ Known(last'.s)
        /\ Len(last'.P) = 1 /\ Truthy(last'.P[1].blob_hash))
       => (/\ GetStreamOfBlobhash(DB', last'.P[1].blob_hash) = Row(<<last'.s>>)
           /\ \A s2 \in StreamHashes \ {last'.s} :
                 last'.P[1].blob_hash \notin HashesOf(GetBlobsForStream(DB', s2).seq))]_vars

\* C19: the stream-info lookup for a hash without a files row fails with
\* NoSuchStreamHash and changes no table; the existence check returns True for
\* the hashes that have a files row and False for every other hash, and
\* changes no table.
C19_UnknownStreamNotFound ==
    [][/\ (last'.op = "get_stream_info" /\ <<DB, last>> # <<DB', last'>>)
          => /\ DB' = DB
             /\ (~Known(last'.s)) => last'.err = "NoSuchStreamHash" /\ last'.val = NoValue
             /\ Known(last'.s) => last'.err = ""
       /\ (last'.op = "check_if_stream_exists" /\ <<DB, last>> # <<DB', last'>>)
          => /\ DB' = DB /\ last'.err = ""
             /\ last'.ret = (IF \E i \in DOMAIN files : files[i].stream_hash = last'.s
                             THEN True ELSE False)]_vars

\* the lookup failed for s2 in a store that holds s1
C19_Witness ==
    /\ last.op = "get_stream_info" /\ last.s = "s2" /\ last.err = "NoSuchStreamHash"
    /\ Known("s1") /\ ~Known("s2")
    /\ CheckIfStreamExists(DB, "s1") = True /\ CheckIfStreamExists(DB, "s2") = False

----------------------------------------------------------------------------
(* Properties of the election *)

\* C20: set_winning_claim(name, X) stopped after any prefix of its statements
\* and run again with the same arguments comes to its end, and then the
\* winning references, every claim status and the error raised (if any) are
\* those of one uninterrupted run from the state the first run started in;
\* run again after it completed, it leaves the winning references and every
\* claim status as they were (only last_checked may differ).
C20_RerunSafe ==
    /\ [](\A p \in Electors :
            procs[p].pc = "done" => Outcome(DB, procs[p].err) = procs[p].exp)
    /\ \A p \in Electors :
          (procs[p].pc \in InFlight \cup {"crashed"}) ~> (procs[p].pc = "done")

\* an election of the second claim over the active first one was stopped the
\* greatest number of times, run again and completed: the first claim is
\* INACTIVE, the second ACTIVE and the name's winner
C20_Witness ==
    /\ procs[1].pc = "done" /\ procs[1].err = "" /\ procs[1].crashes = MaxCrashes
    /\ ~procs[1].again /\ procs[1].id = 2
    /\ DOMAIN claims = {1, 2}
    /\ claims[1].status = INACTIVE /\ claims[2].status = ACTIVE
    /\ claims[1].name = procs[1].name /\ claims[2].name = procs[1].name
    /\ \E w \in DOMAIN winning :
          winning[w].name = procs[1].name /\ winning[w].claim_id = 2

\* a completed election was run again, stopped, run again and completed, at
\* another clock reading
C20_AgainWitness ==
    /\ procs[1].pc = "done" /\ procs[1].err = "" /\ procs[1].again
    /\ procs[1].crashes = MaxCrashes
    /\ \E w \in DOMAIN winning :
          winning[w].name = procs[1].name /\ winning[w].last_checked = 200

\* C21: when set_winning_claim(name, X) runs for a claim X that is ACTIVE
\* under name, X is ACTIVE in every committed state of the call: no statement
\* of the call moves it to INACTIVE.
C21_WinnerStaysActive ==
    [][\A p \in Electors :
          (/\ procs[p].pc \in InFlight /\ procs[p].id \in DOMAIN claims
           /\ claims[procs[p].id].name = procs[p].name
           /\ claims[procs[p].id].status = ACTIVE)
             => claims'[procs[p].id].status = ACTIVE]_vars

\* C22: once two concurrent calls set_winning_claim(name, A) and
\* set_winning_claim(name, B), A # B, have both completed, exactly one claim
\* under name is ACTIVE and it is the claim the name's winning_claims row
\* references, whatever the order of their statements.
C22_ElectionsConverge ==
    (/\ DOMAIN procs = Procs
     /\ \A p \in Procs : procs[p].pc = "done" /\ procs[p].err = ""
     /\ procs[1].name = procs[2].name /\ procs[1].o # procs[2].o)
    => /\ Cardinality(SelectActive(DB, procs[1].name)) = 1
       /\ \E w \in DOMAIN winning :
             /\ winning[w].name = procs[1].name
             /\ winning[w].claim_id \in SelectActive(DB, procs[1].name)

----------------------------------------------------------------------------
(* Properties of the claim status state machine *)

\* C23: INVALID_METADATA and MISSING_METADATA are terminal: no observe,
\* attach_metadata or elect_winner call changes the status of a claim that is
\* in one of them.
C23_ErrorStatesTerminal ==
    [][\A i \in DOMAIN claims :
          claims[i].status \in {INVALID_METADATA, MISSING_METADATA}
             => (i \in DOMAIN claims' /\ claims'[i].status = claims[i].status)]_vars

\* C24: after completed observe, attach_metadata and elect_winner calls,
\* whatever name and outpoint the elections were given, every ACTIVE claim is
\* the claim the winning_claims row of its own name references, and every
\* name has at most one ACTIVE claim.
C24_ActiveIsWinner ==
    /\ \A i \in DOMAIN claims :
          claims[i].status = ACTIVE
             => \E w \in DOMAIN winning :
                   winning[w].name = claims[i].name /\ winning[w].claim_id = i
    /\ \A n \in Names : Cardinality(SelectActive(DB, n)) <= 1

\* C25: in every state reachable by observe, attach_metadata and elect_winner
\* a claim in status INIT has no metadata row and a claim in status PENDING,
\* ACTIVE or INACTIVE has one, and no call takes a claim from INIT to ACTIVE.
C25_ActiveOnlyAfterMetadata ==
    /\ [](\A i \in DOMAIN claims :
            /\ claims[i].status = INIT => i \notin DOMAIN metadata
            /\ claims[i].status \in {PENDING, ACTIVE, INACTIVE} => i \in DOMAIN metadata)
    /\ [][\A i \in DOMAIN claims :
            claims[i].status = INIT
               => (i \in DOMAIN claims' /\ claims'[i].status # ACTIVE)]_vars

----------------------------------------------------------------------------
(* Properties of the schema's references *)

\* C26: in every reachable state every managed_blobs row has its blobs row
\* and an owning stream that is NULL or a files row, every stream_terminators
\* row has its files row, every metadata row its claims row and every
\* blob_transfer_history row its blobs row; and every delete completes.
C26_ReferencesLive ==
    /\ [](/\ \A i \in DOMAIN managed :
               /\ i \in DOMAIN blobs
               /\ managed[i].file_id = NULL \/ managed[i].file_id \in DOMAIN files
           /\ DOMAIN terms \subseteq DOMAIN files
           /\ DOMAIN metadata \subseteq DOMAIN claims
           /\ \A x \in DOMAIN history : history[x].blob_id \in DOMAIN blobs)
    /\ [][last'.op = "delete_blob" /\ <<DB, last>> # <<DB', last'>>
             => last'.err = ""]_vars

\* C27: after every completed operation the blobs rows and the managed_blobs
\* rows are paired one to one by identity, and a blob created by an operation
\* that stores no attributes starts with every optional column NULL.
C27_BlobManagedPaired ==
    /\ [](last.err = "" => DOMAIN blobs = DOMAIN managed)
    /\ [][last'.op \in {"get_blob_row_id", "add_metadata_to_claim",
                       "save_sd_blob_hash_to_stream", "add_blob_to_history"}
             /\ last'.err = ""
          => \A i \in DOMAIN blobs' \ DOMAIN blobs :
                 i \in DOMAIN managed' /\ managed'[i] = NullManaged]_vars

\* C28: when get_blob_row_id(h) on a hash that was never seen and
\* add_completed_blob(h, length, t) run interleaved and both have returned
\* without error, the managed_blobs row of h holds that length and deadline.
C28_NoLostUpdate ==
    \A p, q \in Procs :
        /\ procs[p].call = "get_blob_row_id" /\ Returned(p)
        /\ procs[q].call = "add_completed_blob" /\ Returned(q)
        /\ procs[p].h = procs[q].h
        => \E i \in DOMAIN managed :
               /\ i \in DOMAIN blobs /\ blobs[i] = procs[q].h
               /\ managed[i].blob_length = procs[q].length
               /\ managed[i].next_announce_time = procs[q].t

----------------------------------------------------------------------------
(* Metadata and the descriptor link *)

\* C29: every claim that has a metadata row is linked to the blob whose hash
\* is the one embedded in the stored payload, and no claim in status
\* INVALID_METADATA has a metadata row.
C29_LinkMatchesPayload ==
    \A c \in DOMAIN claims :
        /\ c \in DOMAIN metadata
           => /\ claims[c].sd_blob_id \in DOMAIN blobs
              /\ blobs[claims[c].sd_blob_id] = GetSdHash(DecodeB58Metadata(metadata[c])).sd
        /\ claims[c].status = INVALID_METADATA => c \notin DOMAIN metadata

----------------------------------------------------------------------------
(* Announcing completed blobs *)

\* C30: every hash get_blobs_to_announce returns is the hash of a blob whose
\* blob_length and last_verified_time were set by add_completed_blob.
C30_OnlyCompletedAnnounced ==
    [][last'.op = "get_blobs_to_announce"
          => \A h \in Elems(last'.rhs) :
                 \E i \in DOMAIN blobs \cap DOMAIN managed :
                     /\ blobs[i] = h
                     /\ managed[i].blob_length # NULL
                     /\ managed[i].last_verified_time # NULL]_vars

----------------------------------------------------------------------------
(* Frame of the descriptor link and of the lookups *)

\* the hashes of the pieces of stream s: the rows it owns at a position
PieceHashes(db, s) ==
    {db.blobs[i] : i \in {j \in DOMAIN db.managed \cap DOMAIN db.blobs :
                              /\ db.managed[j].file_id = GetFileRowId(db, s)
                              /\ db.managed[j].stream_position # NULL}}

\* C31: save_sd_blob_hash_to_stream(s, d) on a known stream s, with d not the
\* hash of one of its pieces, leaves what get_blobs_for_stream(s) returns as
\* it was, whatever positions the pieces have.
C31_LinkKeepsPieces ==
    [][(/\ last'.op = "save_sd_blob_hash_to_stream" /\ last'.err = ""
        /\ <<DB, last>> # <<DB', last'>>
        /\ Known(last'.s)
        /\ last'.hs[1] \notin PieceHashes(DB, last'.s))
          => GetBlobsForStream(DB', last'.s) = GetBlobsForStream(DB, last'.s)]_vars

\* C32: get_claim_metadata_for_sd_hash, called with any hash, registered or
\* not, leaves every row of every table as it was.
C32_LookupWritesNothing ==
    [][last'.op = "get_claim_metadata_for_sd_hash" => DB' = DB]_vars

============================================================================
